---- MODULE Spec2Model ----
(***************************************************************************)
(* Model of the fetch-aggregate-replace pipeline of STP-Team/parser:       *)
(*   - ConcurrentAPIFetcher.fetch_parallel      (src/app/tasks/base.py)    *)
(*   - BatchDBOperator.bulk_insert_with_cleanup (src/app/tasks/base.py)    *)
(*   - _bulk_insert_kpi, _aggregate_kpi_results (src/app/tasks/kpi.py)     *)
(*   - _bulk_insert_premium, _bulk_insert_head_premium                     *)
(*                                              (src/app/tasks/premium.py) *)
(* Each component has its own specification (SpecFetch, SpecWrite,         *)
(* SpecAgg); a component that a specification does not run stays idle.     *)
(***************************************************************************)
EXTENDS Integers, Sequences, FiniteSets, TLC

VARIABLES
    \* ---- ConcurrentAPIFetcher ----
    semaphore_limit,    \* self.semaphore_limit
    fpc,                \* position of fetch_parallel: idle, gather, returned, raised
    tasks,              \* the argument tasks: a list of task descriptors
    sem,                \* the value of the asyncio.Semaphore of the call
    cstate,             \* per coroutine limited_task(task): waiting, running, done
    executed,           \* per task: what its task_executor call produced
    results,            \* the list asyncio.gather builds
    completion,         \* the order the coroutines finished in
    processed_results,  \* the list fetch_parallel returns
    \* ---- storage and the replace-writers ----
    db,                 \* table name -> committed rows, as any reader sees them
    txn,                \* the session's open transaction: work not yet committed
    wpc,                \* position of the running writer
    writer,             \* which writer function was called
    wtable,             \* its destination table
    data_list,          \* the rows (for KPI: the records of kpi_dict) handed to it
    delete_func,        \* bulk_insert_with_cleanup: whether a delete function is given
    wresult,            \* how the call ended: pending, returned (count), raised
    wbefore,            \* db as it was when the writer was called
    wfail,              \* where the call failed, if it did
    ops,                \* session operations issued by the call, by kind
    \* ---- _aggregate_kpi_results ----
    agg_tasks,          \* the argument tasks visited: the report type of each task
    agg_results,        \* the argument results visited: one result (or None) per task
    kpi_dict,           \* the dictionary being built: fullname -> record
    apc,                \* position of the aggregation: idle, loop, done
    \* ---- APIProcessor.process_with_config ----
    ppc,                \* position of process_with_config
    pcalls,             \* the calls and returns of its three steps, in order
    processed_data,     \* what process_results returned
    plog,               \* the lines it logged, by level
    updated_count,      \* how the call ended, and the count it returned
    \* ---- fill_kpi and _generic_fill_period ----
    unites,             \* api.unites: the units the reports are asked for
    kpc,                \* position of fill_kpi: idle, gather, write, done
    kperiod,            \* the period being filled: 1 day, 2 week, 3 month
    ktasks,             \* the tasks of the period: (report_type, unit) pairs
    kresults,           \* what asyncio.gather returned for them
    kevents,            \* the fetches and writes of the call so far, in order
    kbudget,            \* how many more API calls may answer other than None
    kret,               \* how fill_kpi ended: pending, returned, raised
    \* ---- premium.py: the backfills over several periods ----
    periods,            \* the argument periods of the running backfills
    child,              \* the state of the specialists and of the heads backfill
    pbudget,            \* how many more API calls may answer other than None
    mpc,                \* position of fill_all_premium_last_6_months
    mret,               \* how it ended: pending, returned, raised
    mlog,               \* the lines it logged, by level
    \* ---- generate_last_6_months_periods called on its own ----
    current_date,       \* datetime.now() of the call
    generated,          \* the list it returned
    \* ---- two writer calls on one table that overlap in time ----
    sess,               \* the session and the position of each of the calls
    ovwriter,           \* the writer both calls are calls of
    ovtable,            \* the table both calls truncate
    version,            \* the commits made on that table so far
    overlapped,         \* both calls have been inside the writer at once
    \* ---- main() and the scheduler ----
    main_pc,            \* position of main(): start, the awaited call, sleeping, raised
    scheduler_running,  \* scheduler.running
    jobs,               \* the jobs added to the scheduler
    ticks,              \* the ticks of the interval job so far
    job_pc,             \* the run of the interval job: idle, called
    job_runs,           \* how each run of the interval job ended
    \* ---- BatchDBOperator.bulk_update_with_transaction ----
    upc,                \* position of the call: idle, loop, commit, except, done
    updates,            \* the argument updates
    ucalls,             \* the update_data update_func was called with, in order
    ucount,             \* the local updated_count
    upending,           \* the updates in the session's open transaction
    uvisible,           \* the updates readers see: those committed
    uops,               \* the commits and rollbacks the call has issued
    ufail,              \* where the call failed, and at which update
    uresult             \* how the call ended, and the count it returned

fetchVars == <<semaphore_limit, fpc, tasks, sem, cstate, executed, results,
               completion, processed_results>>

writeVars == <<db, txn, wpc, writer, wtable, data_list, delete_func, wresult,
               wbefore, wfail, ops>>

aggVars == <<agg_tasks, agg_results, kpi_dict, apc>>

procVars == <<ppc, pcalls, processed_data, plog, updated_count>>

kpiVars == <<unites, kpc, kperiod, ktasks, kresults, kevents, kbudget, kret>>

premVars == <<periods, child, pbudget, mpc, mret, mlog>>

genVars == <<current_date, generated>>

overlapVars == <<sess, ovwriter, ovtable, version, overlapped>>

mainVars == <<main_pc, scheduler_running, jobs, ticks, job_pc, job_runs>>

updVars == <<upc, updates, ucalls, ucount, upending, uvisible, uops, ufail,
             uresult>>

sideVars == <<overlapVars, mainVars, updVars>>

cycleVars == <<procVars, kpiVars, premVars, genVars, sideVars>>

vars == <<fetchVars, writeVars, aggVars, cycleVars>>

(***************************************************************************)
(* Bounds of the model.                                                    *)
(***************************************************************************)
MaxTasks == 3
MaxLimit == 2
MaxData == 2
MaxAggSize == 4
MaxKpiEvents == 3
MaxPeriods == 2
MaxPremEvents == 3
MaxAllEvents == 1
MaxYears == 2
MaxTicks == 1

\* ProcessingConfig.semaphore_limit: int = 10
DefaultSemaphoreLimit == 10

\* Python's None, as it appears in lists of strings.
None == "None"

RECURSIVE SeqsOfLen(_, _)
SeqsOfLen(S, n) ==
    IF n = 0 THEN {<<>>}
    ELSE {Append(s, x) : s \in SeqsOfLen(S, n - 1), x \in S}

SeqsUpTo(S, n) == UNION {SeqsOfLen(S, k) : k \in 0..n}

(***************************************************************************)
(* ConcurrentAPIFetcher.fetch_parallel                                     *)
(***************************************************************************)
\* Task descriptors (the tuples of task_executor parameters); a list may
\* hold the same descriptor twice.
TaskParams == {"p1", "p2"}
\* What a task_executor call can return.
ReturnValues == {"a", "b"}
\* A raised exception, as gather(return_exceptions=True) stores it.
Exc == "exc"
Pending == "pending"

InitFetchIdle ==
    /\ fpc = "idle"
    /\ tasks = <<>>
    /\ sem = 0
    /\ cstate = <<>>
    /\ executed = <<>>
    /\ results = <<>>
    /\ completion = <<>>
    /\ processed_results = <<>>

\* ConcurrentAPIFetcher.__init__
InitFetch ==
    /\ semaphore_limit \in 1..MaxLimit
    /\ InitFetchIdle

\* The coroutines that hold an admission slot: inside `async with semaphore`.
InProgress == {i \in DOMAIN cstate : cstate[i] = "running"}

\* fetch_parallel is called: the semaphore is created, one coroutine per task
\* is created and handed to asyncio.gather.
fetch_parallel(ts) ==
    /\ fpc = "idle"
    /\ fpc' = "gather"
    /\ tasks' = ts
    /\ sem' = semaphore_limit
    /\ cstate' = [i \in 1..Len(ts) |-> "waiting"]
    /\ executed' = [i \in 1..Len(ts) |-> Pending]
    /\ results' = [i \in 1..Len(ts) |-> Pending]
    /\ completion' = <<>>
    /\ UNCHANGED <<semaphore_limit, processed_results>>
    /\ UNCHANGED <<writeVars, aggVars, cycleVars>>

\* Not the code: admission without waiting for a free slot of the semaphore.
CanEnterUnbounded(i) == cstate[i] = "waiting"

\* `async with semaphore`: a coroutine enters when the semaphore has a slot.
CanEnter(i) == cstate[i] = "waiting" /\ sem > 0

\* limited_task acquires the semaphore and calls task_executor(*task_params).
limited_task_acquire(i) ==
    /\ fpc \in {"gather", "raised"}
    /\ CanEnter(i)
    /\ sem' = sem - 1
    /\ cstate' = [cstate EXCEPT ![i] = "running"]
    /\ UNCHANGED <<semaphore_limit, fpc, tasks, executed, results, completion,
                   processed_results>>
    /\ UNCHANGED <<writeVars, aggVars, cycleVars>>

\* Not the code: outcomes kept in the order the awaitables complete.
GatherStoreCompletionOrder(rs, i, out) ==
    LET free == {k \in DOMAIN rs : rs[k] = Pending}
        k == CHOOSE m \in free : \A n \in free : m <= n
    IN  [rs EXCEPT ![k] = out]

\* asyncio.gather keeps each awaitable's outcome at the awaitable's position.
GatherStore(rs, i, out) == [rs EXCEPT ![i] = out]

\* Not the code: gather without return_exceptions=True.
ReturnExceptionsFalse == FALSE

\* gather(*coroutines, return_exceptions=True)
ReturnExceptions == TRUE

\* Not the code: a task that raised waits for a slot again.
AfterRaiseRetry == "waiting"

\* A limited_task whose task_executor raised has ended: gather holds its
\* exception and nothing calls it again.
AfterRaise == "done"

\* Not the code: a slot that stays taken when task_executor raises.
ReleaseOnRaiseLeaks(s) == s

\* The exit of `async with semaphore` when task_executor raises: the slot
\* is released as on a normal exit.
ReleaseOnRaise(s) == s + 1

\* Not the code: a gather that returns at the first outcome.
GatherDoneAtFirst == \E i \in DOMAIN cstate : cstate[i] = "done"

\* await asyncio.gather(*coroutines, ...) returns when every coroutine has
\* ended; no timeout is given.
GatherDone == \A i \in DOMAIN cstate : cstate[i] = "done"

\* task_executor returns v: the slot is released, gather records v.
executor_returns(i, v) ==
    /\ fpc \in {"gather", "raised"}
    /\ cstate[i] = "running"
    /\ cstate' = [cstate EXCEPT ![i] = "done"]
    /\ sem' = sem + 1
    /\ executed' = [executed EXCEPT ![i] = v]
    /\ results' = GatherStore(results, i, v)
    /\ completion' = Append(completion, i)
    /\ UNCHANGED <<semaphore_limit, fpc, tasks, processed_results>>
    /\ UNCHANGED <<writeVars, aggVars, cycleVars>>

\* task_executor raises: the slot is released by `async with`; gather records
\* the exception as the coroutine's outcome (return_exceptions=True), or
\* would propagate it to fetch_parallel's caller otherwise.
executor_raises(i) ==
    /\ fpc \in {"gather", "raised"}
    /\ cstate[i] = "running"
    /\ cstate' = [cstate EXCEPT ![i] = AfterRaise]
    /\ sem' = ReleaseOnRaise(sem)
    /\ executed' = [executed EXCEPT ![i] = Exc]
    /\ results' = GatherStore(results, i, Exc)
    /\ completion' = Append(completion, i)
    /\ fpc' = IF ReturnExceptions THEN fpc ELSE "raised"
    /\ UNCHANGED <<semaphore_limit, tasks, processed_results>>
    /\ UNCHANGED <<writeVars, aggVars, cycleVars>>

\* The loop `for i, result in enumerate(results)` from index i on.
RECURSIVE Processed(_, _, _)
Processed(ts, rs, i) ==
    IF i > Len(rs) THEN <<>>
    ELSE <<(IF rs[i] = Exc THEN <<ts[i], None>> ELSE <<ts[i], rs[i]>>)>>
         \o Processed(ts, rs, i + 1)

\* gather has every outcome: the exceptions are replaced and the list returned.
fetch_parallel_return ==
    /\ fpc = "gather"
    /\ GatherDone
    /\ processed_results' = Processed(tasks, results, 1)
    /\ fpc' = "returned"
    /\ UNCHANGED <<semaphore_limit, tasks, sem, cstate, executed, results,
                   completion>>
    /\ UNCHANGED <<writeVars, aggVars, cycleVars>>

(***************************************************************************)
(* Storage: the scoped session of the storage collaborator.  Work issued   *)
(* through the session stays in its transaction until commit; readers see  *)
(* the committed rows only.                                                *)
(***************************************************************************)
Tables == {"KpiDay", "KpiWeek", "KpiMonth", "SpecPremium", "HeadPremium"}

\* Names a stored row can carry; "" is a blank fullname.
RowNames == {"", "ivanov", "petrov"}
StorageRows == [fullname : RowNames]

NoTxn == [cleared |-> FALSE, pending |-> <<>>, flushed |-> 0]
NoOps == [clear |-> 0, insert |-> 0, commit |-> 0, rollback |-> 0]
NoFail == [at |-> "none", n |-> 0, m |-> 0]

\* session.execute(TRUNCATE ...) / delete_func(): the clear joins the transaction.
SessionClear(t) == [t EXCEPT !.cleared = TRUE, !.pending = <<>>, !.flushed = 0]

\* session.add_all(rows): the rows are pending in the transaction.
SessionAddAll(t, rows) == [t EXCEPT !.pending = t.pending \o rows]

\* What the table holds once the transaction t commits.
Committed(old, t) == (IF t.cleared THEN <<>> ELSE old) \o t.pending

InitWriteIdle ==
    /\ txn = NoTxn
    /\ wpc = "idle"
    /\ writer = "none"
    /\ wtable = "none"
    /\ data_list = <<>>
    /\ delete_func = FALSE
    /\ wresult = [kind |-> "pending", count |-> 0]
    /\ wbefore = db
    /\ wfail = NoFail
    /\ ops = NoOps

\* Any table contents can precede a write.
InitWrite ==
    /\ \E c \in SeqsUpTo(StorageRows, MaxData) : db = [t \in Tables |-> c]
    /\ InitWriteIdle

(***************************************************************************)
(* BatchDBOperator.bulk_insert_with_cleanup                                *)
(***************************************************************************)
\* Not the code: the clear made whether or not a delete function is given.
BulkEntryAlwaysClears(data, del) == IF data = <<>> THEN "done" ELSE "delete"

\* Not the code: entry without the `if not data_list` guard.
BulkEntryNoGuard(data, del) == IF del THEN "delete" ELSE "add_all"

\* `if not data_list: return 0`, else into the try block.
BulkEntry(data, del) ==
    IF data = <<>> THEN "done" ELSE IF del THEN "delete" ELSE "add_all"

bulk_insert_with_cleanup(t, data, del) ==
    /\ wpc = "idle"
    /\ writer' = "bulk_insert_with_cleanup"
    /\ wtable' = t
    /\ data_list' = data
    /\ delete_func' = del
    /\ wbefore' = db
    /\ wpc' = BulkEntry(data, del)
    /\ wresult' = IF BulkEntry(data, del) = "done"
                  THEN [kind |-> "returned", count |-> 0]
                  ELSE wresult
    /\ UNCHANGED <<db, txn, wfail, ops>>
    /\ UNCHANGED <<fetchVars, aggVars, cycleVars>>

\* What readers see of the table after `await delete_func()`: the function
\* goes on to add_all without a commit, so the old rows.
BulkDeleteVisible(old, t) == old

\* `await delete_func()` succeeds.
bulk_delete_ok ==
    /\ writer = "bulk_insert_with_cleanup"
    /\ wpc = "delete"
    /\ txn' = SessionClear(txn)
    /\ db' = [db EXCEPT ![wtable] = BulkDeleteVisible(db[wtable], txn)]
    /\ ops' = [ops EXCEPT !.clear = @ + 1]
    /\ wpc' = "add_all"
    /\ UNCHANGED <<writer, wtable, data_list, delete_func, wresult, wbefore, wfail>>
    /\ UNCHANGED <<fetchVars, aggVars, cycleVars>>

\* `await delete_func()` raises.
bulk_delete_fails ==
    /\ writer = "bulk_insert_with_cleanup"
    /\ wpc = "delete"
    /\ ops' = [ops EXCEPT !.clear = @ + 1]
    /\ wfail' = [at |-> "clear", n |-> 0, m |-> Len(data_list)]
    /\ wpc' = "except"
    /\ UNCHANGED <<db, txn, writer, wtable, data_list, delete_func, wresult, wbefore>>
    /\ UNCHANGED <<fetchVars, aggVars, cycleVars>>

\* self.session.add_all(data_list); await self.session.commit() begins.
bulk_add_all ==
    /\ writer = "bulk_insert_with_cleanup"
    /\ wpc = "add_all"
    /\ txn' = SessionAddAll(txn, data_list)
    /\ ops' = [ops EXCEPT !.insert = @ + 1, !.commit = @ + 1]
    /\ wpc' = "commit"
    /\ UNCHANGED <<db, writer, wtable, data_list, delete_func, wresult, wbefore, wfail>>
    /\ UNCHANGED <<fetchVars, aggVars, cycleVars>>

\* The commit flushes the pending rows one INSERT at a time, inside the
\* transaction.
session_flush_row ==
    /\ wpc = "commit"
    /\ txn.flushed < Len(txn.pending)
    /\ txn' = [txn EXCEPT !.flushed = @ + 1]
    /\ UNCHANGED <<db, wpc, writer, wtable, data_list, delete_func, wresult,
                   wbefore, wfail, ops>>
    /\ UNCHANGED <<fetchVars, aggVars, cycleVars>>

\* `return len(data_list)`
BulkSuccessCount(data) == Len(data)

\* The commit succeeds: the transaction becomes visible at once.
bulk_commit_ok ==
    /\ writer = "bulk_insert_with_cleanup"
    /\ wpc = "commit"
    /\ txn.flushed = Len(txn.pending)
    /\ db' = [db EXCEPT ![wtable] = Committed(db[wtable], txn)]
    /\ txn' = NoTxn
    /\ wresult' = [kind |-> "returned", count |-> BulkSuccessCount(data_list)]
    /\ wpc' = "done"
    /\ UNCHANGED <<writer, wtable, data_list, delete_func, wbefore, wfail, ops>>
    /\ UNCHANGED <<fetchVars, aggVars, cycleVars>>

\* The commit raises after txn.flushed of the rows were inserted.
bulk_commit_fails ==
    /\ writer = "bulk_insert_with_cleanup"
    /\ wpc = "commit"
    /\ wfail' = [at |-> "insert", n |-> txn.flushed, m |-> Len(txn.pending)]
    /\ wpc' = "except"
    /\ UNCHANGED <<db, txn, writer, wtable, data_list, delete_func, wresult,
                   wbefore, ops>>
    /\ UNCHANGED <<fetchVars, aggVars, cycleVars>>

\* Not the code: a handler that keeps what the failed unit of work had done.
BulkExceptCommits(old, t) ==
    (IF t.cleared THEN <<>> ELSE old) \o SubSeq(t.pending, 1, t.flushed)

\* What readers see of the table after the handler's
\* `await self.session.rollback()`: the old rows.
BulkExceptVisible(old, t) == old

\* Not the code: a handler that re-raises.
BulkExceptReraises(data) == [kind |-> "raised", count |-> 0]

\* `except Exception`: ... `return 0`
BulkExceptResult(data) == [kind |-> "returned", count |-> 0]

\* except Exception: the error is logged, the session rolled back, 0 returned.
bulk_except ==
    /\ writer = "bulk_insert_with_cleanup"
    /\ wpc = "except"
    /\ txn' = NoTxn
    /\ ops' = [ops EXCEPT !.rollback = @ + 1]
    /\ db' = [db EXCEPT ![wtable] = BulkExceptVisible(db[wtable], txn)]
    /\ wresult' = BulkExceptResult(data_list)
    /\ wpc' = "done"
    /\ UNCHANGED <<writer, wtable, data_list, delete_func, wbefore, wfail>>
    /\ UNCHANGED <<fetchVars, aggVars, cycleVars>>

(***************************************************************************)
(* _bulk_insert_kpi, _bulk_insert_premium, _bulk_insert_head_premium:      *)
(* TRUNCATE, add_all, commit inside `async with get_stats_session()`.      *)
(***************************************************************************)
TruncWriters == {"_bulk_insert_kpi", "_bulk_insert_premium",
                 "_bulk_insert_head_premium"}

KpiTables == {"KpiDay", "KpiWeek", "KpiMonth"}

\* The table each writer truncates; _bulk_insert_kpi takes it as table_name.
WriterTables(w) ==
    IF w = "_bulk_insert_kpi" THEN KpiTables
    ELSE IF w = "_bulk_insert_premium" THEN {"SpecPremium"}
    ELSE {"HeadPremium"}

\* Not the code: every record of kpi_dict.values() made a row.
KpiRecordsUnfiltered(values) == values

\* _bulk_insert_kpi: [model_class(**record) for record in kpi_dict.values()
\*                    if record["fullname"]]
KpiRecords(values) == SelectSeq(values, LAMBDA r : r.fullname # "")

\* The rows a writer inserts, from what it is handed.
RowsToInsert(w, data) == IF w = "_bulk_insert_kpi" THEN KpiRecords(data) ELSE data

\* The writer is called and opens its session.
bulk_insert_truncating(w, t, data) ==
    /\ wpc = "idle"
    /\ w \in TruncWriters
    /\ t \in WriterTables(w)
    /\ writer' = w
    /\ wtable' = t
    /\ data_list' = data
    /\ wbefore' = db
    /\ wpc' = "truncate"
    /\ UNCHANGED <<db, txn, delete_func, wresult, wfail, ops>>
    /\ UNCHANGED <<fetchVars, aggVars, cycleVars>>

\* Not the code: a TRUNCATE committed before the rows are added.
TruncateCommits(old, t) == <<>>

\* What readers see of the table after session.execute(TRUNCATE ...): the
\* function goes on to add_all without a commit, so the old rows.
TruncateVisible(old, t) == old

\* await session.execute(text("TRUNCATE TABLE ...")) succeeds.
truncate_ok ==
    /\ writer \in TruncWriters
    /\ wpc = "truncate"
    /\ txn' = SessionClear(txn)
    /\ db' = [db EXCEPT ![wtable] = TruncateVisible(db[wtable], txn)]
    /\ ops' = [ops EXCEPT !.clear = @ + 1]
    /\ wpc' = "add_all"
    /\ UNCHANGED <<writer, wtable, data_list, delete_func, wresult, wbefore, wfail>>
    /\ UNCHANGED <<fetchVars, aggVars, cycleVars>>

\* The TRUNCATE raises: the error leaves the function through `async with`,
\* which closes the session.
truncate_fails ==
    /\ writer \in TruncWriters
    /\ wpc = "truncate"
    /\ ops' = [ops EXCEPT !.clear = @ + 1]
    /\ wfail' = [at |-> "clear", n |-> 0, m |-> Len(RowsToInsert(writer, data_list))]
    /\ txn' = NoTxn
    /\ wresult' = [kind |-> "raised", count |-> 0]
    /\ wpc' = "done"
    /\ UNCHANGED <<db, writer, wtable, data_list, delete_func, wbefore>>
    /\ UNCHANGED <<fetchVars, aggVars, cycleVars>>

\* session.add_all(records); await session.commit() begins.
truncating_add_all ==
    /\ writer \in TruncWriters
    /\ wpc = "add_all"
    /\ txn' = SessionAddAll(txn, RowsToInsert(writer, data_list))
    /\ ops' = [ops EXCEPT !.insert = @ + 1, !.commit = @ + 1]
    /\ wpc' = "commit"
    /\ UNCHANGED <<db, writer, wtable, data_list, delete_func, wresult, wbefore, wfail>>
    /\ UNCHANGED <<fetchVars, aggVars, cycleVars>>

\* The commit succeeds; the function logs the count and returns None.
truncating_commit_ok ==
    /\ writer \in TruncWriters
    /\ wpc = "commit"
    /\ txn.flushed = Len(txn.pending)
    /\ db' = [db EXCEPT ![wtable] = Committed(db[wtable], txn)]
    /\ txn' = NoTxn
    /\ wresult' = [kind |-> "returned_none", count |-> Len(txn.pending)]
    /\ wpc' = "done"
    /\ UNCHANGED <<writer, wtable, data_list, delete_func, wbefore, wfail, ops>>
    /\ UNCHANGED <<fetchVars, aggVars, cycleVars>>

\* The commit raises: no handler in the function, the session scope ends
\* and its uncommitted transaction is discarded.
truncating_commit_fails ==
    /\ writer \in TruncWriters
    /\ wpc = "commit"
    /\ wfail' = [at |-> "insert", n |-> txn.flushed, m |-> Len(txn.pending)]
    /\ txn' = NoTxn
    /\ wresult' = [kind |-> "raised", count |-> 0]
    /\ wpc' = "done"
    /\ UNCHANGED <<db, writer, wtable, data_list, delete_func, wbefore, ops>>
    /\ UNCHANGED <<fetchVars, aggVars, cycleVars>>

NextWrite ==
    \/ \E t \in Tables, data \in SeqsUpTo(StorageRows, MaxData), del \in BOOLEAN :
          bulk_insert_with_cleanup(t, data, del)
    \/ bulk_delete_ok
    \/ bulk_delete_fails
    \/ bulk_add_all
    \/ session_flush_row
    \/ bulk_commit_ok
    \/ bulk_commit_fails
    \/ bulk_except
    \/ \E w \in TruncWriters, t \in Tables, data \in SeqsUpTo(StorageRows, MaxData) :
          bulk_insert_truncating(w, t, data)
    \/ truncate_ok
    \/ truncate_fails
    \/ truncating_add_all
    \/ truncating_commit_ok
    \/ truncating_commit_fails

(***************************************************************************)
(* _aggregate_kpi_results                                                  *)
(***************************************************************************)
\* Python values of a row or a record slot: None, an int, a float.
PyNone == [k |-> "none", v |-> 0]
PyIntOf(n) == [k |-> "int", v |-> n]

\* float(value)
PyFloat(x) == [k |-> "float", v |-> x.v]

\* int(total_contacts)
PyInt(x) == [k |-> "int", v |-> x.v]

\* for report_type in ["aht", "flr", "csi", "pok", "delay"]
ReportTypes == {"aht", "flr", "csi", "pok", "delay"}

\* report_type in ("flr", "csi", "pok", "delay")
FloatTypes == {"flr", "csi", "pok", "delay"}

\* Not the code: a template whose metric slots start at zero.
create_zero_kpi_record(fullname) ==
    [fullname |-> fullname, contacts_count |-> PyIntOf(0), aht |-> PyIntOf(0),
     flr |-> PyIntOf(0), csi |-> PyIntOf(0), pok |-> PyIntOf(0),
     delay |-> PyIntOf(0)]

\* _create_empty_kpi_record(fullname)
create_empty_kpi_record(fullname) ==
    [fullname |-> fullname, contacts_count |-> PyNone, aht |-> PyNone,
     flr |-> PyNone, csi |-> PyNone, pok |-> PyNone, delay |-> PyNone]

\* defaultdict(lambda: _create_empty_kpi_record("")) before any access.
EmptyDict == [n \in {} |-> create_empty_kpi_record("")]

\* Not the code: a dictionary that also gets a blank record under "".
TouchWithBlank(d, name) ==
    [n \in DOMAIN d \cup {name, ""} |->
        IF n \in DOMAIN d THEN d[n] ELSE create_empty_kpi_record("")]

\* kpi_dict[name]: the defaultdict creates the record on first access.
Touch(d, name) ==
    [n \in DOMAIN d \cup {name} |->
        IF n \in DOMAIN d THEN d[n] ELSE create_empty_kpi_record("")]

\* if not kpi_dict[row.fullname]["fullname"]: ... = row.fullname
StoreName(rec, row) ==
    IF rec.fullname = "" THEN [rec EXCEPT !.fullname = row.fullname] ELSE rec

\* Not the code: the contact count stored even when the row has none.
StoreContactsAlways(rec, row) ==
    [rec EXCEPT !.contacts_count = row.total_contacts]

\* total_contacts = getattr(row, "total_contacts", None); stored when not None
StoreContacts(rec, row) ==
    IF row.total_contacts # PyNone
    THEN [rec EXCEPT !.contacts_count = PyInt(row.total_contacts)]
    ELSE rec

\* value = getattr(row, report_type, None): the rows of a result carry the
\* metric of their task's report type (or None).
GetAttr(row, report_type) == row.value

\* float(value) for the float metrics, the value as it is otherwise.
MetricValue(row, report_type) ==
    IF GetAttr(row, report_type) # PyNone /\ report_type \in FloatTypes
    THEN PyFloat(GetAttr(row, report_type))
    ELSE GetAttr(row, report_type)

\* Not the code: a slot that keeps its first value.
StoreMetricKeepFirst(rec, row, report_type) ==
    IF rec[report_type] # PyNone THEN rec
    ELSE [rec EXCEPT ![report_type] = MetricValue(row, report_type)]

\* Not the code: a merge that replaces the whole record.
StoreMetricReplaceRecord(rec, row, report_type) ==
    [create_empty_kpi_record(rec.fullname)
        EXCEPT ![report_type] = MetricValue(row, report_type)]

\* kpi_dict[row.fullname][report_type] = value
StoreMetric(rec, row, report_type) ==
    [rec EXCEPT ![report_type] = MetricValue(row, report_type)]

\* Not the code: one record object shared by every key, so that a row's
\* values show under every subject.
ProcessRowSharedRecord(d, report_type, row) ==
    LET d1 == Touch(d, row.fullname)
    IN  [n \in DOMAIN d1 |->
            StoreMetric(StoreContacts(StoreName(d1[n], row), row), row, report_type)]

\* The body of `for row in res.data` for one row.
ProcessRow(d, report_type, row) ==
    LET d1 == Touch(d, row.fullname)
        r1 == StoreName(d1[row.fullname], row)
        r2 == StoreContacts(r1, row)
        r3 == StoreMetric(r2, row, report_type)
    IN  [d1 EXCEPT ![row.fullname] = r3]

\* `if not res or not res.data`
NoData(res) == ~res.ok \/ res.data = <<>>

\* The rows the loops visit, in order, each with its task's report type.
RECURSIVE VisitedRows(_, _, _)
VisitedRows(ts, rs, i) ==
    IF i > Len(ts) \/ i > Len(rs) THEN <<>>
    ELSE (IF NoData(rs[i]) THEN <<>>
          ELSE [j \in 1..Len(rs[i].data) |->
                    [report_type |-> ts[i], row |-> rs[i].data[j]]])
         \o VisitedRows(ts, rs, i + 1)

RECURSIVE FoldRows(_, _, _)
FoldRows(d, visited, k) ==
    IF k > Len(visited) THEN d
    ELSE FoldRows(ProcessRow(d, visited[k].report_type, visited[k].row),
                  visited, k + 1)

\* _aggregate_kpi_results(tasks, results) as a function of its arguments.
aggregate_kpi_results(ts, rs) == FoldRows(EmptyDict, VisitedRows(ts, rs, 1), 1)

(***************************************************************************)
(* The aggregation run on bounded arguments.  The arguments are drawn as   *)
(* the loops reach them: agg_tasks and agg_results hold the (task, result) *)
(* pairs and rows visited so far, and kpi_dict is the dictionary after     *)
(* them.                                                                   *)
(***************************************************************************)
AggNames == {"ivanov", "petrov"}
AggContacts == {PyNone, PyIntOf(1), PyIntOf(2)}
AggValues == {PyNone, PyIntOf(1)}
AggTypes == {"aht", "flr"}
AggRows == [fullname : AggNames, total_contacts : AggContacts, value : AggValues]

\* A result without data: None (also an exception replaced by None), or a
\* response whose data list is empty.
NoDataResults == {[ok |-> FALSE, data |-> <<>>], [ok |-> TRUE, data |-> <<>>]}

RECURSIVE RowCount(_, _)
RowCount(rs, i) == IF i > Len(rs) THEN 0 ELSE Len(rs[i].data) + RowCount(rs, i + 1)

\* The size of the arguments: one per (task, result) pair and one per row.
AggSize == Len(agg_results) + RowCount(agg_results, 1)

InitAggIdle ==
    /\ agg_tasks = <<>>
    /\ agg_results = <<>>
    /\ kpi_dict = EmptyDict
    /\ apc = "idle"

\* _aggregate_kpi_results is entered: kpi_dict = defaultdict(...)
InitAgg ==
    /\ agg_tasks = <<>>
    /\ agg_results = <<>>
    /\ kpi_dict = EmptyDict
    /\ apc = "loop"

\* The next pair's result is None or has no data: `continue`.
agg_skip_result(report_type, res) ==
    /\ apc = "loop"
    /\ AggSize + 1 <= MaxAggSize
    /\ NoData(res)
    /\ agg_tasks' = Append(agg_tasks, report_type)
    /\ agg_results' = Append(agg_results, res)
    /\ UNCHANGED <<kpi_dict, apc>>
    /\ UNCHANGED <<fetchVars, writeVars, cycleVars>>

\* The next pair's result has data: the first pass of `for row in res.data`.
agg_first_row(report_type, row) ==
    /\ apc = "loop"
    /\ AggSize + 2 <= MaxAggSize
    /\ agg_tasks' = Append(agg_tasks, report_type)
    /\ agg_results' = Append(agg_results, [ok |-> TRUE, data |-> <<row>>])
    /\ kpi_dict' = ProcessRow(kpi_dict, report_type, row)
    /\ UNCHANGED apc
    /\ UNCHANGED <<fetchVars, writeVars, cycleVars>>

\* A further pass of `for row in res.data` over the same result.
agg_next_row(row) ==
    /\ apc = "loop"
    /\ AggSize + 1 <= MaxAggSize
    /\ agg_results # <<>>
    /\ ~NoData(agg_results[Len(agg_results)])
    /\ agg_results' = [agg_results EXCEPT ![Len(agg_results)].data = Append(@, row)]
    /\ kpi_dict' = ProcessRow(kpi_dict, agg_tasks[Len(agg_tasks)], row)
    /\ UNCHANGED <<agg_tasks, apc>>
    /\ UNCHANGED <<fetchVars, writeVars, cycleVars>>

\* The pairs are exhausted: return dict(kpi_dict)
agg_return ==
    /\ apc = "loop"
    /\ apc' = "done"
    /\ UNCHANGED <<agg_tasks, agg_results, kpi_dict>>
    /\ UNCHANGED <<fetchVars, writeVars, cycleVars>>

NextAgg ==
    \/ \E report_type \in AggTypes, res \in NoDataResults :
          agg_skip_result(report_type, res)
    \/ \E report_type \in AggTypes, row \in AggRows : agg_first_row(report_type, row)
    \/ \E row \in AggRows : agg_next_row(row)
    \/ agg_return

(***************************************************************************)
(* APIProcessor.process_with_config.  fetch_data and process_results are   *)
(* abstract: each returns or raises; save_data writes the rows through the *)
(* Replace-Writer and returns its count.                                   *)
(***************************************************************************)
NoCount == [kind |-> "pending", count |-> 0]

InitProcIdle ==
    /\ ppc = "idle"
    /\ pcalls = <<>>
    /\ processed_data = <<>>
    /\ plog = <<>>
    /\ updated_count = NoCount

\* process_with_config is entered: the start is logged, fetch_data is called.
\* del: whether config.get_delete_func() gives a delete function.
process_with_config(t, del) ==
    /\ ppc = "idle"
    /\ wpc = "idle"
    /\ ppc' = "fetch_data"
    /\ pcalls' = <<"fetch_data:call">>
    /\ plog' = <<"info">>
    /\ wtable' = t
    /\ delete_func' = del
    /\ UNCHANGED <<processed_data, updated_count>>
    /\ UNCHANGED <<db, txn, wpc, writer, data_list, wresult, wbefore, wfail, ops>>
    /\ UNCHANGED <<fetchVars, aggVars, kpiVars, premVars, genVars, sideVars>>

\* Not the code: a cycle that goes from the fetch straight to the write.
AfterFetchSkipsProcessing == "save_data"

\* results = await self.fetch_data(...); then self.process_results(results, ...)
AfterFetch == "process_results"

\* except Exception as e: self.logger.error(...); raise
ExceptOutcome == [kind |-> "raised", count |-> 0]

\* await self.fetch_data(config) returns.
fetch_data_returns ==
    /\ ppc = "fetch_data"
    /\ ppc' = AfterFetch
    /\ pcalls' = pcalls \o <<"fetch_data:return", AfterFetch \o ":call">>
    /\ UNCHANGED <<processed_data, plog, updated_count>>
    /\ UNCHANGED <<fetchVars, writeVars, aggVars, kpiVars, premVars, genVars, sideVars>>

\* await self.fetch_data(config) raises: the handler logs and re-raises.
fetch_data_raises ==
    /\ ppc = "fetch_data"
    /\ ppc' = "done"
    /\ pcalls' = Append(pcalls, "fetch_data:raise")
    /\ plog' = Append(plog, "error")
    /\ updated_count' = ExceptOutcome
    /\ UNCHANGED processed_data
    /\ UNCHANGED <<fetchVars, writeVars, aggVars, kpiVars, premVars, genVars, sideVars>>

\* if not processed_data: ... return 0; else save_data is called.
AfterProcessing(data) == IF data = <<>> THEN "done" ELSE "save_data"

\* self.process_results(results, config) returns data: with no data the
\* warning is logged and 0 returned, otherwise save_data is called.
process_results_returns(data) ==
    /\ ppc = "process_results"
    /\ processed_data' = data
    /\ ppc' = AfterProcessing(data)
    /\ pcalls' = pcalls \o
          (IF AfterProcessing(data) = "done" THEN <<"process_results:return">>
           ELSE <<"process_results:return", "save_data:call">>)
    /\ plog' = IF AfterProcessing(data) = "done" THEN Append(plog, "warning")
               ELSE plog
    /\ updated_count' = IF AfterProcessing(data) = "done"
                        THEN [kind |-> "returned", count |-> 0]
                        ELSE updated_count
    /\ UNCHANGED <<fetchVars, writeVars, aggVars, kpiVars, premVars, genVars, sideVars>>

\* self.process_results(results, config) raises: logged and re-raised.
process_results_raises ==
    /\ ppc = "process_results"
    /\ ppc' = "done"
    /\ pcalls' = Append(pcalls, "process_results:raise")
    /\ plog' = Append(plog, "error")
    /\ updated_count' = ExceptOutcome
    /\ UNCHANGED processed_data
    /\ UNCHANGED <<fetchVars, writeVars, aggVars, kpiVars, premVars, genVars, sideVars>>

\* save_data hands the rows to BatchDBOperator.bulk_insert_with_cleanup with
\* the delete function of the config.
save_data_writes ==
    /\ ppc = "save_data"
    /\ wpc = "idle"
    /\ writer' = "bulk_insert_with_cleanup"
    /\ data_list' = processed_data
    /\ wbefore' = db
    /\ wpc' = BulkEntry(processed_data, delete_func)
    /\ wresult' = IF BulkEntry(processed_data, delete_func) = "done"
                  THEN [kind |-> "returned", count |-> 0]
                  ELSE wresult
    /\ UNCHANGED <<db, txn, wtable, delete_func, wfail, ops>>
    /\ UNCHANGED <<fetchVars, aggVars, procVars, kpiVars, premVars, genVars, sideVars>>

\* save_data raises on its own, before it writes: logged and re-raised.
save_data_raises ==
    /\ ppc = "save_data"
    /\ wpc = "idle"
    /\ ppc' = "done"
    /\ pcalls' = Append(pcalls, "save_data:raise")
    /\ plog' = Append(plog, "error")
    /\ updated_count' = ExceptOutcome
    /\ UNCHANGED processed_data
    /\ UNCHANGED <<fetchVars, writeVars, aggVars, kpiVars, premVars, genVars, sideVars>>

\* save_data returns the writer's count: the end is logged with the count,
\* which is returned.
save_data_returns ==
    /\ ppc = "save_data"
    /\ writer = "bulk_insert_with_cleanup"
    /\ wpc = "done"
    /\ ppc' = "done"
    /\ pcalls' = Append(pcalls, "save_data:return")
    /\ plog' = Append(plog, "info")
    /\ updated_count' = [kind |-> "returned", count |-> wresult.count]
    /\ UNCHANGED processed_data
    /\ UNCHANGED <<fetchVars, writeVars, aggVars, kpiVars, premVars, genVars, sideVars>>

NextProc ==
    \/ \E t \in Tables, del \in BOOLEAN : process_with_config(t, del)
    \/ fetch_data_returns
    \/ fetch_data_raises
    \/ \E data \in SeqsUpTo(StorageRows, MaxData) : process_results_returns(data)
    \/ process_results_raises
    \/ save_data_writes
    \/ save_data_raises
    \/ save_data_returns
    \/ bulk_delete_ok
    \/ bulk_delete_fails
    \/ bulk_add_all
    \/ session_flush_row
    \/ bulk_commit_ok
    \/ bulk_commit_fails
    \/ bulk_except


(***************************************************************************)
(* fill_kpi: _fill_day, _fill_week, _fill_month, each one call of          *)
(* _generic_fill_period.  The code between two awaits runs as one step.    *)
(***************************************************************************)
\* Not the code: the three periods all filling the daily table.
KpiPeriodsAllDaily ==
    <<[period_name |-> "daily", days |-> 1, table_name |-> "KpiDay"],
      [period_name |-> "weekly", days |-> 7, table_name |-> "KpiDay"],
      [period_name |-> "monthly", days |-> 31, table_name |-> "KpiDay"]>>

\* _fill_day, _fill_week, _fill_month: the arguments of _generic_fill_period.
KpiPeriods ==
    <<[period_name |-> "daily", days |-> 1, table_name |-> "KpiDay"],
      [period_name |-> "weekly", days |-> 7, table_name |-> "KpiWeek"],
      [period_name |-> "monthly", days |-> 31, table_name |-> "KpiMonth"]>>

\* for report_type in ["aht", "flr", "csi", "pok", "delay"]
ReportTypeList == <<"aht", "flr", "csi", "pok", "delay">>

\* The tasks of a period: for unit in api.unites, for report_type in [...].
KpiTaskList ==
    [i \in 1..(Len(unites) * Len(ReportTypeList)) |->
        [unit |-> unites[((i - 1) \div Len(ReportTypeList)) + 1],
         report_type |-> ReportTypeList[((i - 1) % Len(ReportTypeList)) + 1]]]

\* What api.get_period_kpi can produce: None (the default), an exception,
\* or a response with one row for a subject, whose fullname can be blank.
KpiNone == [st |-> "ok", res |-> [ok |-> FALSE, data |-> <<>>]]
KpiExc == [st |-> "exc", res |-> [ok |-> FALSE, data |-> <<>>]]
KpiRows ==
    {[fullname |-> n, total_contacts |-> PyNone, value |-> PyIntOf(1)] :
        n \in {"", "ivanov"}}
KpiAnswers ==
    {KpiExc} \cup {[st |-> "ok", res |-> [ok |-> TRUE, data |-> <<r>>]] : r \in KpiRows}

\* The outcomes of n API calls of which at most b answer other than None.
RECURSIVE KpiOutcomes(_, _)
KpiOutcomes(n, b) ==
    IF n = 0 THEN {<<>>}
    ELSE {Append(rs, KpiNone) : rs \in KpiOutcomes(n - 1, b)}
         \cup (IF b = 0 THEN {}
               ELSE {Append(rs, o) : rs \in KpiOutcomes(n - 1, b - 1),
                                     o \in KpiAnswers})

Answered(rs) == Cardinality({i \in 1..Len(rs) : rs[i] # KpiNone})

\* Rows a table holds before the call.
KpiOldRows ==
    <<[create_empty_kpi_record("petrov") EXCEPT !.aht = PyIntOf(2)]>>

InitKpiIdle ==
    /\ unites = <<>>
    /\ kpc = "idle"
    /\ kperiod = 0
    /\ ktasks = <<>>
    /\ kresults = <<>>
    /\ kevents = <<>>
    /\ kbudget = 0
    /\ kret = "pending"

\* kpi_dict.values(): the records in the order their keys were first used.
RECURSIVE FirstNames(_, _)
FirstNames(v, k) ==
    IF k = 0 THEN <<>>
    ELSE LET prev == FirstNames(v, k - 1)
         IN  IF \E j \in 1..Len(prev) : prev[j] = v[k].row.fullname
             THEN prev
             ELSE Append(prev, v[k].row.fullname)

DictValues(ts, rs) ==
    LET v == VisitedRows(ts, rs, 1)
        names == FirstNames(v, Len(v))
        d == aggregate_kpi_results(ts, rs)
    IN  [i \in 1..Len(names) |-> d[names[i]]]

\* The report types of the tasks, and the results after lines 123-126 have
\* put None in place of every exception.
TaskTypes(ts) == [i \in 1..Len(ts) |-> ts[i].report_type]

\* Not the code: one exception makes every result of the period None.
ResultsAllOrNothing(rs) ==
    [i \in 1..Len(rs) |->
        IF \E j \in 1..Len(rs) : rs[j].st = "exc" THEN KpiNone.res ELSE rs[i].res]

ResultsOrNone(rs) == [i \in 1..Len(rs) |-> rs[i].res]

\* _generic_fill_period is entered for period p with the events so far ev:
\* the tasks are built and asyncio.gather is awaited; after the last period
\* fill_kpi returns.
KpiEnter(p, ev) ==
    IF p > Len(KpiPeriods)
    THEN /\ kpc' = "done"
         /\ kret' = "returned"
         /\ kevents' = ev
         /\ UNCHANGED <<kperiod, ktasks>>
    ELSE /\ kpc' = "gather"
         /\ kperiod' = p
         /\ ktasks' = KpiTaskList
         /\ kevents' = Append(ev, <<"fetch", KpiPeriods[p].table_name>>)
         /\ UNCHANGED kret

\* The coroutines of api.get_period_kpi that are executing: asyncio.gather
\* starts every one of them and returns when all have ended.
KpiInFlight == IF kpc = "gather" THEN Len(ktasks) ELSE 0

\* fill_kpi is called: _fill_day starts.
fill_kpi ==
    /\ kpc = "idle"
    /\ KpiEnter(1, kevents)
    /\ UNCHANGED <<unites, kresults, kbudget>>
    /\ UNCHANGED <<fetchVars, writeVars, aggVars, procVars, premVars, genVars, sideVars>>

\* if not kpi_dict: logger.warning(...); return
KpiNothingToInsert(d) == DOMAIN d = {}

\* asyncio.gather returns rs: exceptions become None, the results are
\* aggregated and, unless kpi_dict is empty, _bulk_insert_kpi is called and
\* opens its session.
kpi_gather_returns(rs) ==
    /\ kpc = "gather"
    /\ kresults' = rs
    /\ kbudget' = kbudget - Answered(rs)
    /\ agg_tasks' = TaskTypes(ktasks)
    /\ agg_results' = ResultsOrNone(rs)
    /\ kpi_dict' = aggregate_kpi_results(TaskTypes(ktasks), ResultsOrNone(rs))
    /\ apc' = "done"
    /\ IF KpiNothingToInsert(kpi_dict')
       THEN /\ KpiEnter(kperiod + 1,
                        Append(kevents,
                               <<"skipped", KpiPeriods[kperiod].table_name>>))
            /\ UNCHANGED writeVars
       ELSE /\ kpc' = "write"
            /\ writer' = "_bulk_insert_kpi"
            /\ wtable' = KpiPeriods[kperiod].table_name
            /\ data_list' = DictValues(TaskTypes(ktasks), ResultsOrNone(rs))
            /\ wbefore' = db
            /\ wfail' = NoFail
            /\ wresult' = [kind |-> "pending", count |-> 0]
            /\ wpc' = "truncate"
            /\ UNCHANGED <<db, txn, delete_func, ops>>
            /\ UNCHANGED <<kperiod, ktasks, kevents, kret>>
    /\ UNCHANGED unites
    /\ UNCHANGED <<fetchVars, procVars, premVars, genVars, sideVars>>

\* _bulk_insert_kpi returned: the end of the period is logged and the next
\* period starts.
kpi_write_returns ==
    /\ kpc = "write"
    /\ wpc = "done"
    /\ wresult.kind = "returned_none"
    /\ KpiEnter(kperiod + 1, Append(kevents, <<"written", wtable>>))
    /\ UNCHANGED <<unites, kresults, kbudget>>
    /\ UNCHANGED <<fetchVars, writeVars, aggVars, procVars, premVars, genVars, sideVars>>

\* Not the code: the error of a period's write logged, and the next period
\* started.
kpi_write_raises_goes_on ==
    /\ kpc = "write"
    /\ wpc = "done"
    /\ wresult.kind = "raised"
    /\ KpiEnter(kperiod + 1, kevents)
    /\ UNCHANGED <<unites, kresults, kbudget>>
    /\ UNCHANGED <<fetchVars, writeVars, aggVars, procVars, premVars, genVars, sideVars>>

\* _bulk_insert_kpi raised: nothing catches the error in
\* _generic_fill_period, _fill_* or fill_kpi, so fill_kpi raises it.
kpi_write_raises ==
    /\ kpc = "write"
    /\ wpc = "done"
    /\ wresult.kind = "raised"
    /\ kpc' = "done"
    /\ kret' = "raised"
    /\ UNCHANGED <<unites, kperiod, ktasks, kresults, kevents, kbudget>>
    /\ UNCHANGED <<fetchVars, writeVars, aggVars, procVars, premVars, genVars, sideVars>>

NextKpi ==
    \/ fill_kpi
    \/ \E rs \in KpiOutcomes(Len(ktasks), kbudget) : kpi_gather_returns(rs)
    \/ kpi_write_returns
    \/ kpi_write_raises
    \/ truncate_ok
    \/ truncate_fails
    \/ truncating_add_all
    \/ session_flush_row
    \/ truncating_commit_ok
    \/ truncating_commit_fails

(***************************************************************************)
(* premium.py: fill_specialists_premium_multiple_periods,                  *)
(* fill_heads_premium_multiple_periods, fill_all_premium_last_6_months     *)
(***************************************************************************)
\* Text is a sequence of characters; the decimal digits in order.
DigitChars == <<"0", "1", "2", "3", "4", "5", "6", "7", "8", "9">>
IsDigit(c) == \E n \in 1..10 : DigitChars[n] = c
DigitValue(c) == (CHOOSE n \in 1..10 : DigitChars[n] = c) - 1

\* f"{n:02d}" for 0 <= n < 100 and f"{y}" for a year of four digits.
Format02d(n) == <<DigitChars[(n \div 10) + 1], DigitChars[(n % 10) + 1]>>
FormatYear(y) ==
    <<DigitChars[(y \div 1000) + 1], DigitChars[((y \div 100) % 10) + 1],
      DigitChars[((y \div 10) % 10) + 1], DigitChars[(y % 10) + 1]>>

\* f"01.{month:02d}.{year}"
PeriodText(month, year) ==
    <<"0", "1", ".">> \o Format02d(month) \o <<".">> \o FormatYear(year)

\* range(6) of generate_last_6_months_periods.
MonthsBack == 6

\* Not the code: the month wrapped into the year without changing the year.
RECURSIVE NormalizeMonthKeepsYear(_, _)
NormalizeMonthKeepsYear(month, year) ==
    IF month <= 0 THEN NormalizeMonthKeepsYear(month + 12, year)
    ELSE [month |-> month, year |-> year]

\* while month <= 0: month += 12; year -= 1
RECURSIVE NormalizeMonth(_, _)
NormalizeMonth(month, year) ==
    IF month <= 0 THEN NormalizeMonth(month + 12, year - 1)
    ELSE [month |-> month, year |-> year]

\* generate_last_6_months_periods with datetime.now() = now: the first day
\* of the current month and of the five months before it, newest first.
generate_last_6_months_periods(now) ==
    [k \in 1..MonthsBack |->
        LET ym == NormalizeMonth(now.month - (k - 1), now.year)
        IN  PeriodText(ym.month, ym.year)]

\* No call of generate_last_6_months_periods on its own.
NoDate == [year |-> 0, month |-> 0, day |-> 0]
InitGenIdle == current_date = NoDate /\ generated = <<>>

\* The dates datetime.now() is drawn from: the days of a month that every
\* month has, in the months of a few years.
Years == 2024..(2024 + MaxYears)
Dates == [year : Years, month : 1..12, day : {1, 15, 28}]

\* generate_last_6_months_periods() is called and returns.
generate_periods_call ==
    /\ current_date # NoDate
    /\ generated = <<>>
    /\ generated' = generate_last_6_months_periods(current_date)
    /\ UNCHANGED current_date
    /\ UNCHANGED <<fetchVars, writeVars, aggVars, procVars, kpiVars, premVars,
                   sideVars>>

NextPeriods == generate_periods_call

\* The value datetime.now() takes: a month early in the year, so that the
\* six months span two years.
Nows == {[year |-> 2026, month |-> 2, day |-> 15]}

\* The period lists a backfill is called with directly: the most recent
\* months, none to MaxPeriods of them.
PeriodChoices ==
    {SubSeq(generate_last_6_months_periods(now), 1, n) :
        now \in Nows, n \in 0..MaxPeriods}

\* A period text no date can be read from.
BadPeriodText == <<>>

\* datetime.strptime(text, "%d.%m.%Y") for a text of two digits, a dot, two
\* digits, a dot and four digits: the date, or a ValueError when the text
\* has another form or names no day or month.
strptime(t) ==
    LET formed ==
            /\ Len(t) = 10
            /\ t[3] = "." /\ t[6] = "."
            /\ \A k \in {1, 2, 4, 5, 7, 8, 9, 10} : IsDigit(t[k])
        day == 10 * DigitValue(t[1]) + DigitValue(t[2])
        month == 10 * DigitValue(t[4]) + DigitValue(t[5])
        year == 1000 * DigitValue(t[7]) + 100 * DigitValue(t[8])
                + 10 * DigitValue(t[9]) + DigitValue(t[10])
    IN  IF formed /\ day \in 1..31 /\ month \in 1..12
        THEN [ok |-> TRUE,
              date |-> [year |-> year, month |-> month, day |-> day]]
        ELSE [ok |-> FALSE, date |-> [year |-> 0, month |-> 0, day |-> 0]]

PremChildren == {"specialists", "heads"}
PremWriter(c) ==
    IF c = "specialists" THEN "_bulk_insert_premium"
    ELSE "_bulk_insert_head_premium"
\* Not the code: a heads writer that truncates the specialists' table.
PremTableShared(c) == "SpecPremium"

\* TRUNCATE TABLE SpecPremium in _bulk_insert_premium, TRUNCATE TABLE
\* HeadPremium in _bulk_insert_head_premium.
PremTable(c) == IF c = "specialists" THEN "SpecPremium" ELSE "HeadPremium"

\* The divisions asked: `unites` of app.services.constants for the
\* specialists (the divisions PremiumAPI.get_specialist_premium knows), the
\* literal list for the heads.
PremDivisions(c) ==
    IF c = "specialists" THEN <<"NTP1", "NTP2", "NCK">> ELSE <<"NTP", "NCK">>

\* What one API call for division d and period p can produce: None (the
\* default), an exception, or a response with one row, whose period text is
\* the period asked or is malformed.
PremNone == [st |-> "none", items |-> <<>>]
PremExc == [st |-> "exc", items |-> <<>>]
PremAnswers(d, p) ==
    {PremExc}
    \cup {[st |-> "ok",
            items |-> <<[user_fullname |-> d, period |-> t,
                         target_normative_second |-> 1,
                         target_normative_rate_second |-> 2]>>] :
            t \in {p, BadPeriodText}}

\* The outcomes of the calls for the first n divisions of ds and period p,
\* of which at most b answer other than None.
RECURSIVE PremOutcomes(_, _, _, _)
PremOutcomes(ds, p, n, b) ==
    IF n = 0 THEN {<<>>}
    ELSE {Append(rs, PremNone) : rs \in PremOutcomes(ds, p, n - 1, b)}
         \cup (IF b = 0 THEN {}
               ELSE {Append(rs, o) : rs \in PremOutcomes(ds, p, n - 1, b - 1),
                                     o \in PremAnswers(ds[n], p)})

PremAnswered(rs) == Cardinality({i \in 1..Len(rs) : rs[i] # PremNone})

\* The rows of the results in task order: exceptions have become None, and
\* a None result is skipped.
RECURSIVE PremRows(_, _)
PremRows(rs, n) ==
    IF n = 0 THEN <<>>
    ELSE PremRows(rs, n - 1)
         \o (IF rs[n].st = "ok" THEN rs[n].items ELSE <<>>)

\* Not the code: a conversion whose errors are swallowed, so that no row
\* stops the loop.
FirstBadRowSwallowed(rows) == 0

\* The position of the first row whose period strptime rejects, or 0.
FirstBadRow(rows) ==
    IF \A k \in 1..Len(rows) : strptime(rows[k].period).ok THEN 0
    ELSE CHOOSE k \in 1..Len(rows) :
            /\ ~strptime(rows[k].period).ok
            /\ \A j \in 1..(k - 1) : strptime(rows[j].period).ok

\* SpecPremium(...) or HeadPremium(...) built from a row by the backfills
\* over several periods and by fill_heads_premium: the name, the parsed
\* period and, of the fields copied under their own names, the two that
\* fill_specialists_premium treats differently.
PremRecord(row) ==
    [fullname |-> row.user_fullname,
     target_normative_second |-> row.target_normative_second,
     target_normative_rate_second |-> row.target_normative_rate_second,
     extraction_period |-> strptime(row.period).date]
PremRecords(rows) == [k \in 1..Len(rows) |-> PremRecord(rows[k])]

\* Not the code: the list started again for every period.
AccumulateReplace(acc, recs) == recs

\* all_premium_list.append(...) for every row of the period.
Accumulate(acc, recs) == acc \o recs

\* Rows a premium table holds before the call.
PremOldRows ==
    <<[fullname |-> "petrov",
       target_normative_second |-> 0,
       target_normative_rate_second |-> 0,
       extraction_period |-> [year |-> 2025, month |-> 1, day |-> 1]]>>

PremIdle ==
    [pc |-> "idle", i |-> 0, acc |-> <<>>, fetched |-> <<>>,
     ret |-> "pending", wrote |-> FALSE]

InitPremIdle ==
    /\ periods = <<>>
    /\ child = [c \in PremChildren |-> PremIdle]
    /\ pbudget = 0
    /\ mpc = "idle"
    /\ mret = "pending"
    /\ mlog = <<>>

\* A backfill is entered with the periods ps: it awaits the gather of its
\* first period, or returns at `if not all_premium_list` when ps is empty.
PremStart(ps) ==
    IF ps = <<>>
    THEN [PremIdle EXCEPT !.pc = "done", !.ret = "returned"]
    ELSE [PremIdle EXCEPT !.pc = "gather", !.i = 1]

\* fill_specialists_premium_multiple_periods(api, ps) or
\* fill_heads_premium_multiple_periods(api, ps) is called on its own.
fill_multiple_periods(c, ps) ==
    /\ mpc = "idle"
    /\ \A k \in PremChildren : child[k].pc = "idle"
    /\ periods' = ps
    /\ child' = [child EXCEPT ![c] = PremStart(ps)]
    /\ pbudget' = MaxPremEvents
    /\ UNCHANGED <<mpc, mret, mlog>>
    /\ UNCHANGED <<fetchVars, writeVars, aggVars, procVars, kpiVars, genVars, sideVars>>

\* fill_all_premium_last_6_months is called: it gathers the two backfills
\* over the last six months.
fill_all_premium_last_6_months(now, b) ==
    /\ mpc = "idle"
    /\ \A k \in PremChildren : child[k].pc = "idle"
    /\ periods' = generate_last_6_months_periods(now)
    /\ child' = [k \in PremChildren |->
                    PremStart(generate_last_6_months_periods(now))]
    /\ pbudget' = b
    /\ mpc' = "gather"
    /\ mlog' = Append(mlog, "info")
    /\ UNCHANGED mret
    /\ UNCHANGED <<fetchVars, writeVars, aggVars, procVars, kpiVars, genVars, sideVars>>

\* if not all_premium_list: logger.warning(...); return
PremNothingToInsert(acc) == acc = <<>>

\* The gather of backfill c for its current period returns rs: exceptions
\* become None and the rows are appended to all_premium_list, unless
\* strptime raises on a row, which ends the backfill; then the next period
\* is fetched or, after the last one, the list is written unless empty.
prem_gather_returns(c, rs) ==
    /\ child[c].pc = "gather"
    /\ pbudget' = pbudget - PremAnswered(rs)
    /\ LET rows == PremRows(rs, Len(rs))
           bad == FirstBadRow(rows)
           good == IF bad = 0 THEN rows ELSE SubSeq(rows, 1, bad - 1)
           acc == Accumulate(child[c].acc, PremRecords(good))
           seen == Append(child[c].fetched, rs)
       IN  child' = [child EXCEPT ![c] =
              IF bad # 0
              THEN [@ EXCEPT !.pc = "done", !.ret = "raised",
                             !.acc = acc, !.fetched = seen]
              ELSE IF child[c].i < Len(periods)
              THEN [@ EXCEPT !.i = @ + 1, !.acc = acc, !.fetched = seen]
              ELSE IF PremNothingToInsert(acc)
              THEN [@ EXCEPT !.pc = "done", !.ret = "returned",
                             !.acc = acc, !.fetched = seen]
              ELSE [@ EXCEPT !.pc = "insert", !.acc = acc, !.fetched = seen]]
    /\ UNCHANGED <<periods, mpc, mret, mlog>>
    /\ UNCHANGED <<fetchVars, writeVars, aggVars, procVars, kpiVars, genVars, sideVars>>

\* _bulk_insert_premium or _bulk_insert_head_premium is called with
\* all_premium_list and opens its session. The two backfills write through
\* different sessions to different tables; the steps of one write are taken
\* before those of the other.
prem_write_starts(c) ==
    /\ child[c].pc = "insert"
    /\ \A k \in PremChildren : child[k].pc # "write"
    /\ child' = [child EXCEPT ![c] = [@ EXCEPT !.pc = "write", !.wrote = TRUE]]
    /\ writer' = PremWriter(c)
    /\ wtable' = PremTable(c)
    /\ data_list' = child[c].acc
    /\ wbefore' = db
    /\ wfail' = NoFail
    /\ wresult' = [kind |-> "pending", count |-> 0]
    /\ wpc' = "truncate"
    /\ UNCHANGED <<db, txn, delete_func, ops>>
    /\ UNCHANGED <<periods, pbudget, mpc, mret, mlog>>
    /\ UNCHANGED <<fetchVars, aggVars, procVars, kpiVars, genVars, sideVars>>

\* The writer returned: the backfill logs its end and returns.
prem_write_returns(c) ==
    /\ child[c].pc = "write"
    /\ wpc = "done"
    /\ wresult.kind = "returned_none"
    /\ child' = [child EXCEPT ![c] = [@ EXCEPT !.pc = "done", !.ret = "returned"]]
    /\ UNCHANGED <<periods, pbudget, mpc, mret, mlog>>
    /\ UNCHANGED <<fetchVars, writeVars, aggVars, procVars, kpiVars, genVars, sideVars>>

\* The writer raised: nothing in the backfill catches the error.
prem_write_raises(c) ==
    /\ child[c].pc = "write"
    /\ wpc = "done"
    /\ wresult.kind = "raised"
    /\ child' = [child EXCEPT ![c] = [@ EXCEPT !.pc = "done", !.ret = "raised"]]
    /\ UNCHANGED <<periods, pbudget, mpc, mret, mlog>>
    /\ UNCHANGED <<fetchVars, writeVars, aggVars, procVars, kpiVars, genVars, sideVars>>

\* SpecPremium(...) as fill_specialists_premium builds it (line 136 takes
\* target_normative_rate_second from row.target_normative_second), and
\* HeadPremium(...) as fill_heads_premium builds it.
PremRecordOne(c, row) ==
    IF c = "specialists"
    THEN [fullname |-> row.user_fullname,
          target_normative_second |-> row.target_normative_second,
          target_normative_rate_second |-> row.target_normative_second,
          extraction_period |-> strptime(row.period).date]
    ELSE PremRecord(row)

\* Not the code: the loop over the results left at the first division
\* without a payload.
RECURSIVE PremRowsUntilAbsent(_, _)
PremRowsUntilAbsent(rs, n) ==
    IF n = 0 THEN <<>>
    ELSE IF \E k \in 1..n : rs[k].st # "ok"
    THEN PremRowsUntilAbsent(rs, n - 1)
    ELSE PremRowsUntilAbsent(rs, n - 1) \o rs[n].items

\* The rows fill_specialists_premium and fill_heads_premium visit in the
\* first n results: an exception has become None, and a result that is None
\* is skipped with a warning.
RECURSIVE PremRowsOne(_, _)
PremRowsOne(rs, n) ==
    IF n = 0 THEN <<>>
    ELSE PremRowsOne(rs, n - 1)
         \o (IF rs[n].st = "ok" THEN rs[n].items ELSE <<>>)

\* The periods a fill of one period is called with: the default and another.
PeriodArgs == {PeriodText(12, 2025), PeriodText(1, 2026)}

\* fill_specialists_premium(api, p) or fill_heads_premium(api, p) is called:
\* the calls for the divisions are gathered.
fill_premium(c, p) ==
    /\ mpc = "idle"
    /\ \A k \in PremChildren : child[k].pc = "idle"
    /\ periods' = <<p>>
    /\ child' = [child EXCEPT ![c] = [PremIdle EXCEPT !.pc = "gather_one", !.i = 1]]
    /\ pbudget' = MaxPremEvents
    /\ UNCHANGED <<mpc, mret, mlog>>
    /\ UNCHANGED <<fetchVars, writeVars, aggVars, procVars, kpiVars, genVars, sideVars>>

\* The gather of a fill of one period returns rs: premium_list is built,
\* unless strptime raises on a row; the fill returns when the list is empty
\* and calls its writer otherwise.
premium_gather_returns(c, rs) ==
    /\ child[c].pc = "gather_one"
    /\ pbudget' = pbudget - PremAnswered(rs)
    /\ LET rows == PremRowsOne(rs, Len(rs))
           bad == FirstBadRow(rows)
           good == IF bad = 0 THEN rows ELSE SubSeq(rows, 1, bad - 1)
           premium_list == [k \in 1..Len(good) |-> PremRecordOne(c, good[k])]
       IN  child' = [child EXCEPT ![c] =
              [@ EXCEPT !.acc = premium_list,
                        !.fetched = <<rs>>,
                        !.pc = IF bad # 0 \/ PremNothingToInsert(premium_list)
                               THEN "done" ELSE "insert",
                        !.ret = IF bad # 0 THEN "raised"
                                ELSE IF PremNothingToInsert(premium_list)
                                THEN "returned" ELSE @]]
    /\ UNCHANGED <<periods, mpc, mret, mlog>>
    /\ UNCHANGED <<fetchVars, writeVars, aggVars, procVars, kpiVars, genVars, sideVars>>

NextPremiumOne ==
    \/ \E c \in PremChildren, p \in PeriodArgs : fill_premium(c, p)
    \/ \E c \in {k \in PremChildren : child[k].pc = "gather_one"} :
          \E rs \in PremOutcomes(PremDivisions(c),
                                 periods[1],
                                 Len(PremDivisions(c)),
                                 pbudget) : premium_gather_returns(c, rs)
    \/ \E c \in PremChildren : prem_write_starts(c)
    \/ \E c \in PremChildren : prem_write_returns(c)
    \/ \E c \in PremChildren : prem_write_raises(c)
    \/ truncate_ok
    \/ truncate_fails
    \/ truncating_add_all
    \/ session_flush_row
    \/ truncating_commit_ok
    \/ truncating_commit_fails

\* asyncio.gather(..., return_exceptions=True) over the two backfills that
\* ended as rets: an exception of a backfill is one of the values returned,
\* so the await returns and the except branch is not taken.
GatherAllOutcome(rets) == "returned"

\* Not the code: a gather that ends at the first backfill that raises,
\* while the other has not ended.
fill_all_returns_at_first_failure ==
    /\ mpc = "gather"
    /\ \/ \A k \in PremChildren : child[k].pc = "done"
       \/ \E k \in PremChildren : child[k].ret = "raised"
    /\ mpc' = "done"
    /\ mret' = "raised"
    /\ mlog' = Append(mlog, "error")
    /\ UNCHANGED <<periods, child, pbudget>>
    /\ UNCHANGED <<fetchVars, writeVars, aggVars, procVars, kpiVars, genVars, sideVars>>

\* Both backfills have ended: the gather returns, the end is logged and
\* fill_all_premium_last_6_months returns.
fill_all_returns ==
    /\ mpc = "gather"
    /\ \A k \in PremChildren : child[k].pc = "done"
    /\ mpc' = "done"
    /\ mret' = GatherAllOutcome([k \in PremChildren |-> child[k].ret])
    /\ mlog' = Append(mlog, IF mret' = "raised" THEN "error" ELSE "info")
    /\ UNCHANGED <<periods, child, pbudget>>
    /\ UNCHANGED <<fetchVars, writeVars, aggVars, procVars, kpiVars, genVars, sideVars>>

NextPremium ==
    \/ \E c \in PremChildren, ps \in PeriodChoices : fill_multiple_periods(c, ps)
    \/ \E now \in Nows : fill_all_premium_last_6_months(now, MaxAllEvents)
    \/ \E c \in {k \in PremChildren : child[k].pc = "gather"} :
          \E rs \in PremOutcomes(PremDivisions(c),
                                 periods[child[c].i],
                                 Len(PremDivisions(c)),
                                 pbudget) : prem_gather_returns(c, rs)
    \/ \E c \in PremChildren : prem_write_starts(c)
    \/ \E c \in PremChildren : prem_write_returns(c)
    \/ \E c \in PremChildren : prem_write_raises(c)
    \/ fill_all_returns
    \/ truncate_ok
    \/ truncate_fails
    \/ truncating_add_all
    \/ session_flush_row
    \/ truncating_commit_ok
    \/ truncating_commit_fails

\* No cycle is running.
(***************************************************************************)
(* BatchDBOperator.bulk_update_with_transaction: update_func is awaited    *)
(* for each update in turn, then the session is committed; any exception   *)
(* is logged, the session rolled back and 0 returned.                      *)
(***************************************************************************)
NoUpdOps == [commit |-> 0, rollback |-> 0]
NoUpdFail == [at |-> "none", n |-> 0]

InitUpdIdle ==
    /\ upc = "idle"
    /\ updates = <<>>
    /\ ucalls = <<>>
    /\ ucount = 0
    /\ upending = <<>>
    /\ uvisible = <<>>
    /\ uops = NoUpdOps
    /\ ufail = NoUpdFail
    /\ uresult = [kind |-> "pending", count |-> 0]

\* The dictionaries of an updates list.
UpdateData == [fullname : {"ivanov", "petrov"}, value : {1, 2}]

\* `if not updates: ... return 0`, else into the try block.
UpdateEntry(us) == IF us = <<>> THEN "done" ELSE "loop"

\* The function is called with the list us.
bulk_update_with_transaction(us) ==
    /\ upc = "idle"
    /\ updates' = us
    /\ upc' = UpdateEntry(us)
    /\ ucount' = 0
    /\ uresult' = IF UpdateEntry(us) = "done"
                  THEN [kind |-> "returned", count |-> 0]
                  ELSE uresult
    /\ UNCHANGED <<ucalls, upending, uvisible, uops, ufail>>
    /\ UNCHANGED <<fetchVars, writeVars, aggVars, procVars, kpiVars, premVars,
                   genVars, overlapVars, mainVars>>

\* After the last pass of the loop `await self.session.commit()` begins.
AfterUpdate(n, us) == IF n = Len(us) THEN "commit" ELSE "loop"

\* await update_func(update_data) returns: the update is in the session's
\* transaction; updated_count += 1.
update_func_returns ==
    /\ upc = "loop"
    /\ ucalls' = Append(ucalls, updates[ucount + 1])
    /\ upending' = Append(upending, updates[ucount + 1])
    /\ ucount' = ucount + 1
    /\ upc' = AfterUpdate(ucount + 1, updates)
    /\ UNCHANGED <<updates, uvisible, uops, ufail, uresult>>
    /\ UNCHANGED <<fetchVars, writeVars, aggVars, procVars, kpiVars, premVars,
                   genVars, overlapVars, mainVars>>

\* await update_func(update_data) raises: control goes to the handler.
update_func_raises ==
    /\ upc = "loop"
    /\ ucalls' = Append(ucalls, updates[ucount + 1])
    /\ ufail' = [at |-> "update", n |-> ucount + 1]
    /\ upc' = "except"
    /\ UNCHANGED <<updates, ucount, upending, uvisible, uops, uresult>>
    /\ UNCHANGED <<fetchVars, writeVars, aggVars, procVars, kpiVars, premVars,
                   genVars, overlapVars, mainVars>>

\* The commit succeeds: the updates of the transaction become visible, the
\* count is logged and returned.
update_commit_ok ==
    /\ upc = "commit"
    /\ uvisible' = uvisible \o upending
    /\ upending' = <<>>
    /\ uresult' = [kind |-> "returned", count |-> ucount]
    /\ uops' = [uops EXCEPT !.commit = @ + 1]
    /\ upc' = "done"
    /\ UNCHANGED <<updates, ucalls, ucount, ufail>>
    /\ UNCHANGED <<fetchVars, writeVars, aggVars, procVars, kpiVars, premVars,
                   genVars, overlapVars, mainVars>>

\* The commit raises: control goes to the handler.
update_commit_fails ==
    /\ upc = "commit"
    /\ uops' = [uops EXCEPT !.commit = @ + 1]
    /\ ufail' = [at |-> "commit", n |-> ucount]
    /\ upc' = "except"
    /\ UNCHANGED <<updates, ucalls, ucount, upending, uvisible, uresult>>
    /\ UNCHANGED <<fetchVars, writeVars, aggVars, procVars, kpiVars, premVars,
                   genVars, overlapVars, mainVars>>

\* Not the code: a handler that returns the count reached before the error.
UpdateExceptReturnsCount(n) == [kind |-> "returned", count |-> n]

\* except Exception: ... `return 0`
UpdateExceptResult(n) == [kind |-> "returned", count |-> 0]

\* except Exception: the error is logged, the session rolled back, 0
\* returned.
update_except ==
    /\ upc = "except"
    /\ uops' = [uops EXCEPT !.rollback = @ + 1]
    /\ upending' = <<>>
    /\ uresult' = UpdateExceptResult(ucount)
    /\ upc' = "done"
    /\ UNCHANGED <<updates, ucalls, ucount, uvisible, ufail>>
    /\ UNCHANGED <<fetchVars, writeVars, aggVars, procVars, kpiVars, premVars,
                   genVars, overlapVars, mainVars>>

NextUpdate ==
    \/ \E us \in SeqsUpTo(UpdateData, MaxData) : bulk_update_with_transaction(us)
    \/ update_func_returns
    \/ update_func_raises
    \/ update_commit_ok
    \/ update_commit_fails
    \/ update_except

(***************************************************************************)
(* main(): the cycles awaited at start-up, then the scheduler with the     *)
(* interval job fill_specialists_premium.                                  *)
(***************************************************************************)
InitMainIdle ==
    /\ main_pc = "idle"
    /\ scheduler_running = FALSE
    /\ jobs = {}
    /\ ticks = 0
    /\ job_pc = "idle"
    /\ job_runs = <<>>

\* except Exception as e: logger.error(...); if scheduler.running:
\* scheduler.shutdown(); raise -- the error leaves main() and asyncio.run.
MainExcept(next) == "raised"

\* main() up to its first awaited cycle: logging, signal handlers, the
\* client session, authenticate, add_job(fill_birthdays, "cron", hour="12").
main_enter ==
    /\ main_pc = "start"
    /\ main_pc' = "fill_kpi"
    /\ jobs' = jobs \cup {"fill_birthdays"}
    /\ UNCHANGED <<scheduler_running, ticks, job_pc, job_runs>>
    /\ UNCHANGED <<fetchVars, writeVars, aggVars, procVars, kpiVars, premVars,
                   genVars, overlapVars, updVars>>

\* authenticate raises: the except clause of main() re-raises.
main_authenticate_raises ==
    /\ main_pc = "start"
    /\ main_pc' = MainExcept("fill_kpi")
    /\ UNCHANGED <<scheduler_running, jobs, ticks, job_pc, job_runs>>
    /\ UNCHANGED <<fetchVars, writeVars, aggVars, procVars, kpiVars, premVars,
                   genVars, overlapVars, updVars>>

\* await fill_kpi(kpi_api) returned: fill_specialists_premium(premium_api)
\* is awaited next.
main_fill_kpi_returns ==
    /\ main_pc = "fill_kpi"
    /\ kpc = "done"
    /\ kret = "returned"
    /\ main_pc' = "fill_specialists_premium"
    /\ UNCHANGED <<scheduler_running, jobs, ticks, job_pc, job_runs>>
    /\ UNCHANGED <<fetchVars, writeVars, aggVars, procVars, kpiVars, premVars,
                   genVars, overlapVars, updVars>>

\* await fill_kpi(kpi_api) raised: the except clause of main().
main_fill_kpi_raises ==
    /\ main_pc = "fill_kpi"
    /\ kpc = "done"
    /\ kret = "raised"
    /\ main_pc' = MainExcept("fill_specialists_premium")
    /\ UNCHANGED <<scheduler_running, jobs, ticks, job_pc, job_runs>>
    /\ UNCHANGED <<fetchVars, writeVars, aggVars, procVars, kpiVars, premVars,
                   genVars, overlapVars, updVars>>

\* await fill_specialists_premium(premium_api) returned: the interval job is
\* added, the scheduler is started and main() sleeps in its loop.
main_fill_premium_returns ==
    /\ main_pc = "fill_specialists_premium"
    /\ child["specialists"].pc = "done"
    /\ child["specialists"].ret = "returned"
    /\ jobs' = jobs \cup {"fill_specialists_premium"}
    /\ scheduler_running' = TRUE
    /\ main_pc' = "sleeping"
    /\ UNCHANGED <<ticks, job_pc, job_runs>>
    /\ UNCHANGED <<fetchVars, writeVars, aggVars, procVars, kpiVars, premVars,
                   genVars, overlapVars, updVars>>

\* await fill_specialists_premium(premium_api) raised: the except clause.
main_fill_premium_raises ==
    /\ main_pc = "fill_specialists_premium"
    /\ child["specialists"].pc = "done"
    /\ child["specialists"].ret = "raised"
    /\ main_pc' = MainExcept("sleeping")
    /\ UNCHANGED <<scheduler_running, jobs, ticks, job_pc, job_runs>>
    /\ UNCHANGED <<fetchVars, writeVars, aggVars, procVars, kpiVars, premVars,
                   genVars, overlapVars, updVars>>

\* The scheduler reaches a tick of the interval job (hours=12) while main()
\* sleeps and no run of the job is in progress: it calls
\* fill_specialists_premium(premium_api).
scheduler_tick ==
    /\ main_pc = "sleeping"
    /\ scheduler_running
    /\ "fill_specialists_premium" \in jobs
    /\ job_pc = "idle"
    /\ ticks < MaxTicks
    /\ ticks' = ticks + 1
    /\ job_pc' = "called"
    /\ child' = [child EXCEPT !["specialists"] = PremIdle]
    /\ UNCHANGED <<main_pc, scheduler_running, jobs, job_runs>>
    /\ UNCHANGED <<periods, pbudget, mpc, mret, mlog>>
    /\ UNCHANGED <<fetchVars, writeVars, aggVars, procVars, kpiVars, genVars,
                   overlapVars, updVars>>

\* The run of the job ends, returned or raised: the scheduler records how
\* and waits for the next tick.
scheduler_job_ends ==
    /\ job_pc = "called"
    /\ child["specialists"].pc = "done"
    /\ job_runs' = Append(job_runs, child["specialists"].ret)
    /\ job_pc' = "idle"
    /\ UNCHANGED <<main_pc, scheduler_running, jobs, ticks>>
    /\ UNCHANGED <<fetchVars, writeVars, aggVars, procVars, kpiVars, premVars,
                   genVars, overlapVars, updVars>>

\* fill_specialists_premium(premium_api): period takes its default.
DefaultPeriod == PeriodText(12, 2025)

NextMain ==
    \/ main_enter
    \/ main_authenticate_raises
    \/ main_pc = "fill_kpi" /\ fill_kpi
    \/ main_pc = "fill_kpi" /\ \E rs \in KpiOutcomes(Len(ktasks), kbudget) :
                                  kpi_gather_returns(rs)
    \/ main_pc = "fill_kpi" /\ kpi_write_returns
    \/ main_pc = "fill_kpi" /\ kpi_write_raises
    \/ main_fill_kpi_returns
    \/ main_fill_kpi_raises
    \/ (main_pc = "fill_specialists_premium" \/ job_pc = "called")
          /\ fill_premium("specialists", DefaultPeriod)
    \/ \E rs \in PremOutcomes(PremDivisions("specialists"), DefaultPeriod,
                              Len(PremDivisions("specialists")), pbudget) :
          premium_gather_returns("specialists", rs)
    \/ prem_write_starts("specialists")
    \/ prem_write_returns("specialists")
    \/ prem_write_raises("specialists")
    \/ main_fill_premium_returns
    \/ main_fill_premium_raises
    \/ scheduler_tick
    \/ scheduler_job_ends
    \/ truncate_ok
    \/ truncate_fails
    \/ truncating_add_all
    \/ session_flush_row
    \/ truncating_commit_ok
    \/ truncating_commit_fails

(***************************************************************************)
(* Two calls of one truncating writer on the same table, each in its own   *)
(* `async with get_stats_session()`, with nothing in the pipeline to keep  *)
(* one from entering while the other is between its awaits.                *)
(***************************************************************************)
Sessions == {1, 2}

NoSession == [pc |-> "idle", data |-> <<>>, txn |-> NoTxn, since |-> 0,
              ret |-> "pending"]

InitOverlapIdle ==
    /\ sess = [s \in Sessions |-> NoSession]
    /\ ovwriter = "none"
    /\ ovtable = "none"
    /\ version = 0
    /\ overlapped = FALSE

InitSideIdle == InitOverlapIdle /\ InitMainIdle /\ InitUpdIdle

\* A call is between entering the writer and leaving it.
InWriter(s) == sess[s].pc \in {"truncate", "add_all", "commit"}

\* Not the code: a writer that adds its rows without the TRUNCATE.
WriterTruncatesKpiOnly(w) == w = "_bulk_insert_kpi"

\* await session.execute(text("TRUNCATE TABLE ...")): each of the three
\* writers issues it before add_all.
WriterTruncates(w) == TRUE

\* What the table can hold once transaction tx commits on the rows old,
\* when `changed` says that another transaction committed on the table
\* after tx issued its clear.  The clear removes the rows the table held
\* when it was issued; whether it also removes rows committed since is not
\* fixed by the storage contract, so both outcomes are possible.
ConcurrentCommit(old, tx, changed) ==
    {Committed(old, tx)}
        \cup (IF changed /\ tx.cleared THEN {old \o tx.pending} ELSE {})

\* The writer is called in session s with the rows data and opens its
\* session; the first call fixes the writer and the table of both.
ov_enter(s, w, t, data) ==
    /\ sess[s].pc = "idle"
    /\ w \in TruncWriters
    /\ t \in WriterTables(w)
    /\ ovwriter \in {"none", w}
    /\ ovtable \in {"none", t}
    /\ ovwriter' = w
    /\ ovtable' = t
    /\ sess' = [sess EXCEPT ![s] = [NoSession EXCEPT !.pc = "truncate",
                                                     !.data = data]]
    /\ overlapped' = (overlapped \/ \E o \in Sessions \ {s} : InWriter(o))
    /\ UNCHANGED version
    /\ UNCHANGED <<fetchVars, writeVars, aggVars, procVars, kpiVars, premVars,
                   genVars, mainVars, updVars>>

\* The TRUNCATE of session s succeeds.
ov_truncate_ok(s) ==
    /\ sess[s].pc = "truncate"
    /\ sess' = [sess EXCEPT ![s].pc = "add_all",
                            ![s].txn = IF WriterTruncates(ovwriter)
                                       THEN SessionClear(@) ELSE @,
                            ![s].since = version]
    /\ UNCHANGED <<ovwriter, ovtable, version, overlapped>>
    /\ UNCHANGED <<fetchVars, writeVars, aggVars, procVars, kpiVars, premVars,
                   genVars, mainVars, updVars>>

\* The TRUNCATE of session s raises and the error leaves the writer.
ov_truncate_fails(s) ==
    /\ sess[s].pc = "truncate"
    /\ sess' = [sess EXCEPT ![s].pc = "done", ![s].ret = "raised"]
    /\ UNCHANGED <<ovwriter, ovtable, version, overlapped>>
    /\ UNCHANGED <<fetchVars, writeVars, aggVars, procVars, kpiVars, premVars,
                   genVars, mainVars, updVars>>

\* session.add_all(records); await session.commit() begins.
ov_add_all(s) ==
    /\ sess[s].pc = "add_all"
    /\ sess' = [sess EXCEPT ![s].pc = "commit",
                            ![s].txn = SessionAddAll(@, RowsToInsert(ovwriter,
                                                                     sess[s].data))]
    /\ UNCHANGED <<ovwriter, ovtable, version, overlapped>>
    /\ UNCHANGED <<fetchVars, writeVars, aggVars, procVars, kpiVars, premVars,
                   genVars, mainVars, updVars>>

\* The commit of session s succeeds and the writer returns.
ov_commit_ok(s) ==
    /\ sess[s].pc = "commit"
    /\ \E rows \in ConcurrentCommit(db[ovtable], sess[s].txn,
                                    version # sess[s].since) :
          db' = [db EXCEPT ![ovtable] = rows]
    /\ version' = version + 1
    /\ sess' = [sess EXCEPT ![s].pc = "done", ![s].ret = "returned",
                            ![s].txn = NoTxn]
    /\ UNCHANGED <<ovwriter, ovtable, overlapped>>
    /\ UNCHANGED <<txn, wpc, writer, wtable, data_list, delete_func, wresult,
                   wbefore, wfail, ops>>
    /\ UNCHANGED <<fetchVars, aggVars, procVars, kpiVars, premVars, genVars,
                   mainVars, updVars>>

\* The commit of session s raises: its transaction is discarded.
ov_commit_fails(s) ==
    /\ sess[s].pc = "commit"
    /\ sess' = [sess EXCEPT ![s].pc = "done", ![s].ret = "raised",
                            ![s].txn = NoTxn]
    /\ UNCHANGED <<ovwriter, ovtable, version, overlapped>>
    /\ UNCHANGED <<fetchVars, writeVars, aggVars, procVars, kpiVars, premVars,
                   genVars, mainVars, updVars>>

\* The rows each of the two cycles hands to the writer: a fullname can be
\* blank.
OverlapData == SeqsUpTo({[fullname |-> n] : n \in {"", "ivanov"}}, MaxData)

\* The rows the table holds before the two calls.
OverlapPrior == {<<>>, <<[fullname |-> "petrov"]>>}

NextOverlap ==
    \/ \E s \in Sessions, w \in TruncWriters, data \in OverlapData :
          \E t \in WriterTables(w) : ov_enter(s, w, t, data)
    \/ \E s \in Sessions : ov_truncate_ok(s)
    \/ \E s \in Sessions : ov_truncate_fails(s)
    \/ \E s \in Sessions : ov_add_all(s)
    \/ \E s \in Sessions : ov_commit_ok(s)
    \/ \E s \in Sessions : ov_commit_fails(s)

InitCycleIdle ==
    InitProcIdle /\ InitKpiIdle /\ InitPremIdle /\ InitGenIdle /\ InitSideIdle

(***************************************************************************)
(* Specifications                                                          *)
(***************************************************************************)
NextFetch ==
    \/ \E ts \in SeqsUpTo(TaskParams, MaxTasks) : fetch_parallel(ts)
    \/ \E i \in DOMAIN cstate : limited_task_acquire(i)
    \/ \E i \in DOMAIN cstate, v \in ReturnValues : executor_returns(i, v)
    \/ \E i \in DOMAIN cstate : executor_raises(i)
    \/ fetch_parallel_return

\* The fetcher alone: storage is idle and empty.
InitSpecFetch ==
    /\ InitFetch
    /\ db = [t \in Tables |-> <<>>]
    /\ InitWriteIdle
    /\ InitAggIdle
    /\ InitCycleIdle

SpecFetch == InitSpecFetch /\ [][NextFetch]_vars

\* The fetcher for progress: the task descriptors and the values returned
\* do not matter to it, so every task has the same descriptor and a call
\* returns one value or raises.
LiveReturnValues == {"a"}

NextFetchLive ==
    \/ \E n \in 0..MaxTasks : fetch_parallel([i \in 1..n |-> "p1"])
    \/ \E i \in DOMAIN cstate : limited_task_acquire(i)
    \/ \E i \in DOMAIN cstate, v \in LiveReturnValues : executor_returns(i, v)
    \/ \E i \in DOMAIN cstate : executor_raises(i)
    \/ fetch_parallel_return

\* Every task_executor call ends: the event loop resumes a coroutine that
\* can go on, asyncio.Semaphore wakes its waiters in turn so that none waits
\* for ever while slots keep being released, and every call that has
\* started returns or raises.
FairFetch ==
    /\ \A i \in 1..MaxTasks :
          /\ SF_vars(i \in DOMAIN cstate /\ limited_task_acquire(i))
          /\ WF_vars(/\ i \in DOMAIN cstate
                     /\ \/ executor_raises(i)
                        \/ \E v \in LiveReturnValues : executor_returns(i, v))
    /\ WF_vars(fetch_parallel_return)

SpecFetchLive == InitSpecFetch /\ [][NextFetchLive]_vars /\ FairFetch

\* One writer call on any prior table contents: the fetcher is idle.
InitSpecWrite ==
    /\ semaphore_limit = 1
    /\ InitFetchIdle
    /\ InitWrite
    /\ InitAggIdle
    /\ InitCycleIdle

SpecWrite == InitSpecWrite /\ [][NextWrite]_vars

\* One aggregation on bounded arguments: fetcher and storage are idle.
InitSpecAgg ==
    /\ semaphore_limit = 1
    /\ InitFetchIdle
    /\ db = [t \in Tables |-> <<>>]
    /\ InitWriteIdle
    /\ InitAgg
    /\ InitCycleIdle

SpecAgg == InitSpecAgg /\ [][NextAgg]_vars

\* One cycle of process_with_config on any prior table contents.
InitSpecProc ==
    /\ semaphore_limit = 1
    /\ InitFetchIdle
    /\ InitWrite
    /\ InitAggIdle
    /\ InitCycleIdle

SpecProc == InitSpecProc /\ [][NextProc]_vars

\* The tables hold rows, no cycle has run, and the API answers up to b of
\* the calls of fill_kpi with something other than None.
InitKpi(us, b) ==
    /\ semaphore_limit = DefaultSemaphoreLimit
    /\ InitFetchIdle
    /\ db = [t \in Tables |-> KpiOldRows]
    /\ InitWriteIdle
    /\ InitAggIdle
    /\ InitProcIdle
    /\ unites = us
    /\ kpc = "idle"
    /\ kperiod = 0
    /\ ktasks = <<>>
    /\ kresults = <<>>
    /\ kevents = <<>>
    /\ kbudget = b
    /\ kret = "pending"
    /\ InitPremIdle
    /\ InitGenIdle
    /\ InitSideIdle

\* One call of fill_kpi for one unit.
InitSpecKpi == InitKpi(<<"NTP1">>, MaxKpiEvents)

SpecKpi == InitSpecKpi /\ [][NextKpi]_vars

\* One call of fill_kpi for the three units of the reporting API, one of
\* whose calls at most answers.
InitSpecKpiUnits == InitKpi(<<"NTP1", "NTP2", "NCK">>, 1)

\* The premium tables hold rows and no backfill has run.
InitSpecPremium ==
    /\ semaphore_limit = DefaultSemaphoreLimit
    /\ InitFetchIdle
    /\ db = [t \in Tables |-> PremOldRows]
    /\ InitWriteIdle
    /\ InitAggIdle
    /\ InitCycleIdle

SpecPremium == InitSpecPremium /\ [][NextPremium]_vars

\* fill_all_premium_last_6_months alone, with two API calls that answer, so
\* that each backfill can have rows or a failure of its own.
NextPremiumAll ==
    \/ \E now \in Nows : fill_all_premium_last_6_months(now, 2)
    \/ \E c \in {k \in PremChildren : child[k].pc = "gather"} :
          \E rs \in PremOutcomes(PremDivisions(c),
                                 periods[child[c].i],
                                 Len(PremDivisions(c)),
                                 pbudget) : prem_gather_returns(c, rs)
    \/ \E c \in PremChildren : prem_write_starts(c)
    \/ \E c \in PremChildren : prem_write_returns(c)
    \/ \E c \in PremChildren : prem_write_raises(c)
    \/ fill_all_returns
    \/ truncate_ok
    \/ truncate_fails
    \/ truncating_add_all
    \/ session_flush_row
    \/ truncating_commit_ok
    \/ truncating_commit_fails

SpecPremiumAll == InitSpecPremium /\ [][NextPremiumAll]_vars

\* The fills of one period, on the same initial state.
SpecPremiumOne == InitSpecPremium /\ [][NextPremiumOne]_vars

\* One call of generate_last_6_months_periods on any current date.
InitSpecPeriods ==
    /\ semaphore_limit = DefaultSemaphoreLimit
    /\ InitFetchIdle
    /\ db = [t \in Tables |-> <<>>]
    /\ InitWriteIdle
    /\ InitAggIdle
    /\ InitProcIdle
    /\ InitKpiIdle
    /\ InitPremIdle
    /\ current_date \in Dates
    /\ generated = <<>>
    /\ InitSideIdle

SpecPeriods == InitSpecPeriods /\ [][NextPeriods]_vars

\* Two calls of a truncating writer on one table, on either prior contents.
InitSpecOverlap ==
    /\ semaphore_limit = 1
    /\ InitFetchIdle
    /\ \E c \in OverlapPrior : db = [t \in Tables |-> c]
    /\ InitWriteIdle
    /\ InitAggIdle
    /\ InitCycleIdle

SpecOverlap == InitSpecOverlap /\ [][NextOverlap]_vars

\* main() is started: the tables hold rows and the API answers at most one
\* of the calls of fill_kpi with something other than None.
InitSpecMain ==
    /\ semaphore_limit = DefaultSemaphoreLimit
    /\ InitFetchIdle
    /\ db = [t \in Tables |-> IF t \in KpiTables THEN KpiOldRows ELSE PremOldRows]
    /\ InitWriteIdle
    /\ InitAggIdle
    /\ InitProcIdle
    /\ unites = <<"NTP1">>
    /\ kpc = "idle"
    /\ kperiod = 0
    /\ ktasks = <<>>
    /\ kresults = <<>>
    /\ kevents = <<>>
    /\ kbudget = 1
    /\ kret = "pending"
    /\ InitPremIdle
    /\ InitGenIdle
    /\ InitOverlapIdle
    /\ InitUpdIdle
    /\ main_pc = "start"
    /\ scheduler_running = FALSE
    /\ jobs = {}
    /\ ticks = 0
    /\ job_pc = "idle"
    /\ job_runs = <<>>

SpecMain == InitSpecMain /\ [][NextMain]_vars

\* One call of bulk_update_with_transaction; everything else is idle.
InitSpecUpdate ==
    /\ semaphore_limit = 1
    /\ InitFetchIdle
    /\ db = [t \in Tables |-> <<>>]
    /\ InitWriteIdle
    /\ InitAggIdle
    /\ InitCycleIdle

SpecUpdate == InitSpecUpdate /\ [][NextUpdate]_vars

\* One cycle of any kind: fill_kpi, a premium backfill, the two backfills
\* of fill_all_premium_last_6_months, or a premium fill of one period.
NextCycles ==
    \/ (mpc = "idle" /\ \A c \in PremChildren : child[c].pc = "idle") /\ NextKpi
    \/ kpc = "idle" /\ NextPremium
    \/ kpc = "idle" /\ NextPremiumOne

\* Every table holds rows and no cycle has run.
InitSpecCycles ==
    /\ semaphore_limit = DefaultSemaphoreLimit
    /\ InitFetchIdle
    /\ db = [t \in Tables |-> IF t \in KpiTables THEN KpiOldRows ELSE PremOldRows]
    /\ InitWriteIdle
    /\ InitAggIdle
    /\ InitProcIdle
    /\ unites = <<"NTP1">>
    /\ kpc = "idle"
    /\ kperiod = 0
    /\ ktasks = <<>>
    /\ kresults = <<>>
    /\ kevents = <<>>
    /\ kbudget = MaxKpiEvents
    /\ kret = "pending"
    /\ InitPremIdle
    /\ InitGenIdle
    /\ InitSideIdle

SpecCycles == InitSpecCycles /\ [][NextCycles]_vars

SpecKpiUnits == InitSpecKpiUnits /\ [][NextKpi]_vars


(***************************************************************************)
(* Properties of fetch_parallel (checked under SpecFetch)                  *)
(***************************************************************************)
\* C1: when fetch_parallel returns, the returned list has exactly one
\* element per input task, and its i-th element pairs the i-th task
\* descriptor with the outcome of that same task's executor call (or None),
\* whatever order the calls completed in.
C1_OutputAlignedWithInput ==
    fpc = "returned" =>
        /\ Len(processed_results) = Len(tasks)
        /\ \A i \in 1..Len(tasks) :
              /\ processed_results[i][1] = tasks[i]
              /\ processed_results[i][2] =
                    IF executed[i] = Exc THEN None ELSE executed[i]

\* Reached: a call of at least two tasks returned after the tasks completed
\* in an order other than the input order, with different outcomes.
C1_Witness ==
    /\ fpc = "returned"
    /\ Len(tasks) >= 2
    /\ completion[1] # 1
    /\ executed[1] \in ReturnValues
    /\ executed[2] \in ReturnValues
    /\ executed[1] # executed[2]

\* C2: at no instant do more coroutines hold an admission slot (are inside
\* their task_executor call) than semaphore_limit, and the semaphore's value
\* accounts for exactly the slots in use.
C2_AtMostLimitInProgress ==
    /\ Cardinality(InProgress) <= semaphore_limit
    /\ fpc # "idle" => sem = semaphore_limit - Cardinality(InProgress)

\* Reached: every slot is taken while another task still waits for one.
C2_Witness ==
    /\ Cardinality(InProgress) = semaphore_limit
    /\ \E i \in DOMAIN cstate : cstate[i] = "waiting"
    /\ Len(tasks) > semaphore_limit

\* C3: fetch_parallel never raises; when it returns, every task has run to
\* completion, a task whose executor raised yields (descriptor, None) at its
\* own position and every other task yields (descriptor, its result).
C3_FailuresIsolated ==
    /\ fpc # "raised"
    /\ fpc = "returned" =>
          /\ Len(processed_results) = Len(tasks)
          /\ \A i \in 1..Len(tasks) :
                /\ cstate[i] = "done"
                /\ executed[i] # Pending
                /\ executed[i] = Exc => processed_results[i] = <<tasks[i], None>>
                /\ executed[i] # Exc =>
                      processed_results[i] = <<tasks[i], executed[i]>>

\* Reached: a call returned in which a task raised first and a sibling that
\* was started later finished with a result.
C3_Witness ==
    /\ fpc = "returned"
    /\ Len(tasks) >= 2
    /\ \E i, j \in 1..Len(tasks) :
          /\ executed[i] = Exc
          /\ executed[j] \in ReturnValues
          /\ completion[1] = i

(***************************************************************************)
(* Properties of the replace-writers (checked under SpecWrite)             *)
(***************************************************************************)
\* A replace-write: a writer that clears the table before it inserts.
IsReplaceWrite ==
    \/ writer \in TruncWriters
    \/ writer = "bulk_insert_with_cleanup" /\ delete_func

\* The complete new row collection of the running call: the rows handed in,
\* for _bulk_insert_kpi those of them that carry a fullname.
NewRowCollection ==
    IF writer = "_bulk_insert_kpi"
    THEN SelectSeq(data_list, LAMBDA r : r.fullname # "")
    ELSE data_list

\* C4: at every point of a replace-write, from the call to its end, readers
\* of the destination table see either exactly the rows it held before the
\* call or exactly the complete new row collection.
C4_AtomicReplace ==
    (wpc # "idle" /\ IsReplaceWrite) =>
        \/ db[wtable] = wbefore[wtable]
        \/ db[wtable] = NewRowCollection

\* Reached: a replace-write on a non-empty table is in the middle of its
\* commit, the clear and one of two inserts done, and readers still see the
\* old rows.
C4_Witness ==
    /\ IsReplaceWrite
    /\ wpc = "commit"
    /\ txn.cleared
    /\ txn.flushed = 1
    /\ Len(txn.pending) = 2
    /\ wbefore[wtable] # <<>>
    /\ db[wtable] = wbefore[wtable]
    /\ db[wtable] # NewRowCollection

\* C5: bulk_insert_with_cleanup called with an empty data_list is over at
\* once: it returns 0, has issued no clear, insert, commit or rollback, and
\* every table is as it was.
C5_EmptyInputNoOp ==
    (writer = "bulk_insert_with_cleanup" /\ data_list = <<>>) =>
        /\ wpc = "done"
        /\ wresult = [kind |-> "returned", count |-> 0]
        /\ ops = NoOps
        /\ txn = NoTxn
        /\ db = wbefore

\* Reached: the call with an empty list and a delete function, on a table
\* that holds rows, has returned.
C5_Witness ==
    /\ writer = "bulk_insert_with_cleanup"
    /\ data_list = <<>>
    /\ delete_func
    /\ wpc = "done"
    /\ db[wtable] # <<>>

\* C6: when a replace-write has failed (in the clear, or in the commit after
\* N of M inserts), then after the call every table holds the rows, and the
\* number of rows, it held before the call, and nothing is left pending.
C6_FailureLeavesPriorState ==
    (wpc = "done" /\ IsReplaceWrite /\ wfail.at # "none") =>
        /\ db = wbefore
        /\ Len(db[wtable]) = Len(wbefore[wtable])
        /\ txn = NoTxn

\* Reached: a bulk_insert_with_cleanup with a delete function, on a
\* non-empty table, failed after the clear and after 1 of 2 inserts.
C6_Witness ==
    /\ wpc = "done"
    /\ writer = "bulk_insert_with_cleanup"
    /\ delete_func
    /\ wfail = [at |-> "insert", n |-> 1, m |-> 2]
    /\ ops.clear = 1
    /\ wbefore[wtable] # <<>>

\* C7: bulk_insert_with_cleanup never raises to its caller; after a failure
\* of the clear or of the insert it has rolled back once and returned 0;
\* without a failure it returns the number of rows of data_list.
C7_FailureReportsZero ==
    writer = "bulk_insert_with_cleanup" =>
        /\ wresult.kind # "raised"
        /\ (wpc = "done" /\ wfail.at # "none") =>
              /\ wresult = [kind |-> "returned", count |-> 0]
              /\ ops.rollback = 1
              /\ txn = NoTxn
        /\ (wpc = "done" /\ wfail.at = "none") =>
              /\ wresult = [kind |-> "returned", count |-> Len(data_list)]
              /\ ops.rollback = 0

\* Reached: a call with two rows failed in its clear and has returned.
C7_Witness ==
    /\ writer = "bulk_insert_with_cleanup"
    /\ wpc = "done"
    /\ wfail.at = "clear"
    /\ Len(data_list) = 2

(***************************************************************************)
(* Properties of _aggregate_kpi_results (checked under SpecAgg)            *)
(***************************************************************************)
Visited == VisitedRows(agg_tasks, agg_results, 1)

\* The rows of v of report type T for subject S, by position.
RowsOf(v, S, T) ==
    {k \in 1..Len(v) : v[k].report_type = T /\ v[k].row.fullname = S}

\* The rows of v for subject S that carry a contact count.
ContactRowsOf(v, S) ==
    {k \in 1..Len(v) : v[k].row.fullname = S /\ v[k].row.total_contacts # PyNone}

Max(K) == CHOOSE k \in K : \A m \in K : m <= k

\* The value a metric slot holds for a row's value: a float for the float
\* metrics, the value itself for aht, None for None.
ExpectedMetric(T, v) ==
    IF v.k = "none" THEN PyNone
    ELSE IF T = "aht" THEN v
    ELSE [k |-> "float", v |-> v.v]

\* The row being processed by this step, its report type and its result.
StepResult == agg_results'[Len(agg_results')]
StepRow == StepResult.data[Len(StepResult.data)]
StepType == agg_tasks'[Len(agg_tasks')]

\* C8 as claimed: when a row is processed whose subject's slot for the row's
\* report type holds a value put there by an earlier result, the slot keeps
\* that value.
C8_SameTypeNotOverwritten ==
    [][(apc = "loop" /\ kpi_dict' # kpi_dict) =>
          ((/\ StepRow.fullname \in DOMAIN kpi_dict
            /\ kpi_dict[StepRow.fullname][StepType] # PyNone
            /\ \A j \in 1..(Len(StepResult.data) - 1) :
                  StepResult.data[j].fullname # StepRow.fullname)
           => kpi_dict'[StepRow.fullname][StepType]
                 = kpi_dict[StepRow.fullname][StepType])]_vars

\* C8 (amended): a subject's slot for a report type always holds the value
\* of the most recent row of that report type visited for the subject, so a
\* later result of the same type overwrites it (also with None) and results
\* of other types leave it as it is; it is None while no such row exists.
C8_SlotHoldsLastSameTypeRow ==
    LET v == Visited
    IN  \A S \in DOMAIN kpi_dict, T \in ReportTypes :
            LET K == RowsOf(v, S, T)
            IN  kpi_dict[S][T] =
                    IF K = {} THEN PyNone
                    ELSE ExpectedMetric(T, v[Max(K)].row.value)

\* Reached: two results of the same report type both had a row for one
\* subject, the first with a value and the second without, and the slot the
\* first result had populated is None again.
C8_Witness ==
    /\ Len(agg_results) = 2
    /\ agg_tasks[1] = agg_tasks[2]
    /\ Len(agg_results[1].data) = 1
    /\ Len(agg_results[2].data) = 1
    /\ agg_results[1].data[1].fullname = agg_results[2].data[1].fullname
    /\ agg_results[1].data[1].value # PyNone
    /\ agg_results[2].data[1].value = PyNone
    /\ kpi_dict[agg_results[1].data[1].fullname][agg_tasks[1]] = PyNone

Reverse(s) == [i \in 1..Len(s) |-> s[Len(s) + 1 - i]]

\* The same aggregation with the two (task, result) pairs in the other order.
Swapped == aggregate_kpi_results(Reverse(agg_tasks), Reverse(agg_results))

\* Two results of distinct report types have been aggregated.
TwoDistinctTypes ==
    /\ apc = "done"
    /\ Len(agg_tasks) = 2
    /\ agg_tasks[1] # agg_tasks[2]

\* C9 as claimed: for two results of distinct report types the aggregated
\* records are the same, in every field, in either processing order.
C9_OrderIndependentAllFields == TwoDistinctTypes => kpi_dict = Swapped

\* A record without its contacts_count.
WithoutContacts(rec) == [rec EXCEPT !.contacts_count = PyNone]

\* Whether result i has a row for S that carries a contact count.
CarriesContacts(i, S) ==
    \E j \in 1..Len(agg_results[i].data) :
        /\ agg_results[i].data[j].fullname = S
        /\ agg_results[i].data[j].total_contacts # PyNone

\* C9 (amended): for two results of distinct report types the aggregation
\* gives, in either order, the same subjects and the same records in every
\* field other than contacts_count; contacts_count is the same too for a
\* subject whose contact count is carried by rows of at most one of the two
\* results.
C9_OrderIndependentExceptContacts ==
    TwoDistinctTypes =>
        LET other == Swapped
        IN  /\ DOMAIN kpi_dict = DOMAIN other
            /\ \A S \in DOMAIN kpi_dict :
                  /\ WithoutContacts(kpi_dict[S]) = WithoutContacts(other[S])
                  /\ ~(CarriesContacts(1, S) /\ CarriesContacts(2, S)) =>
                        kpi_dict[S] = other[S]

\* Reached: two results of distinct report types each had a row for the same
\* subject, with different contact counts, and the two orders disagree on
\* that subject's contacts_count only.
C9_Witness ==
    /\ TwoDistinctTypes
    /\ \E S \in DOMAIN kpi_dict :
          /\ CarriesContacts(1, S)
          /\ CarriesContacts(2, S)
          /\ kpi_dict[S].contacts_count # Swapped[S].contacts_count
          /\ kpi_dict[S].aht # PyNone
          /\ kpi_dict[S].flr # PyNone

\* C10: a subject's contacts_count is the contact count (as an int) of the
\* last visited row for the subject that carries one, whatever the row's
\* report type, and None while there is no such row; so a row without a
\* contact count leaves it as it is.
C10_ContactsOfLastCarryingRow ==
    LET v == Visited
    IN  \A S \in DOMAIN kpi_dict :
            LET K == ContactRowsOf(v, S)
            IN  kpi_dict[S].contacts_count =
                    IF K = {} THEN PyNone
                    ELSE [k |-> "int", v |-> v[Max(K)].row.total_contacts.v]

\* Reached: the aggregation is over; a subject had a row of one report type
\* with contact count 1, then a row of another report type with contact
\* count 2, and holds 2.
C10_Witness ==
    LET v == Visited
    IN  /\ apc = "done"
        /\ Len(v) = 2
        /\ \E S \in DOMAIN kpi_dict :
              /\ \A k \in 1..2 : v[k].row.fullname = S
              /\ v[1].report_type # v[2].report_type
              /\ v[1].row.total_contacts = PyIntOf(1)
              /\ v[2].row.total_contacts = PyIntOf(2)
              /\ kpi_dict[S].contacts_count = PyIntOf(2)

\* C11: the keys of the dictionary are exactly the subjects of the rows
\* visited, that is of the rows of results that are not None and have data;
\* results without data add no key, a subject without a row has no record,
\* and every record carries the name of the subject it is stored under.
C11_KeysAreSubjectsOfRows ==
    LET v == Visited
    IN  /\ DOMAIN kpi_dict = {v[k].row.fullname : k \in 1..Len(v)}
        /\ \A S \in DOMAIN kpi_dict : kpi_dict[S].fullname = S

\* Reached: an aggregation over a None result, a result with an empty data
\* list and a result with a row for one subject has ended with that
\* subject's record only.
C11_Witness ==
    /\ apc = "done"
    /\ \E i, j, k \in 1..Len(agg_results) :
          /\ ~agg_results[i].ok
          /\ agg_results[j].ok /\ agg_results[j].data = <<>>
          /\ agg_results[k].data # <<>>
    /\ DOMAIN kpi_dict = {"ivanov"}

\* The report types all of whose results are None or without data.
TypesWithoutData ==
    {T \in ReportTypes :
        \A i \in 1..Len(agg_tasks) : agg_tasks[i] = T => NoData(agg_results[i])}

\* C12: a report type all of whose results are None or without data has its
\* slot None (not zero) in every record, while the slot of every other
\* report type holds, for each subject with a row of that type, the value of
\* the subject's last such row.
C12_NoDataLeavesSlotUnset ==
    LET v == Visited
    IN  \A S \in DOMAIN kpi_dict, T \in ReportTypes :
            /\ T \in TypesWithoutData => kpi_dict[S][T] = PyNone
            /\ (T \notin TypesWithoutData /\ RowsOf(v, S, T) # {}) =>
                  kpi_dict[S][T] =
                      ExpectedMetric(T, v[Max(RowsOf(v, S, T))].row.value)

\* Reached: every aht result was None or empty, a flr result had a row with
\* a value, and the subject's record has flr set and aht None.
C12_Witness ==
    /\ apc = "done"
    /\ "aht" \in TypesWithoutData
    /\ \E i, j \in 1..Len(agg_tasks) :
          /\ agg_tasks[i] = "aht" /\ ~agg_results[i].ok
          /\ agg_tasks[j] = "aht" /\ agg_results[j].ok
    /\ \E S \in DOMAIN kpi_dict :
          /\ kpi_dict[S].flr = [k |-> "float", v |-> 1]
          /\ kpi_dict[S].aht = PyNone

(***************************************************************************)
(* Properties of process_with_config (checked under SpecProc)              *)
(***************************************************************************)
\* The positions of an event in the history of calls and returns.
CallsOf(e) == {i \in 1..Len(pcalls) : pcalls[i] = e}

\* C17: a cycle calls fetch_data first, calls process_results only right
\* after fetch_data has returned and save_data only right after
\* process_results has returned, calls each of them at most once, and
\* nothing is written before save_data is called.
C17_StepsInOrder ==
    /\ pcalls # <<>> => pcalls[1] = "fetch_data:call"
    /\ \A i \in CallsOf("fetch_data:call") : i = 1
    /\ \A i \in CallsOf("process_results:call") :
          i > 1 /\ pcalls[i - 1] = "fetch_data:return"
    /\ \A i \in CallsOf("save_data:call") :
          i > 1 /\ pcalls[i - 1] = "process_results:return"
    /\ \A e \in {"fetch_data:call", "process_results:call", "save_data:call"} :
          Cardinality(CallsOf(e)) <= 1
    /\ (wpc # "idle" \/ ops # NoOps) => CallsOf("save_data:call") # {}
    /\ ppc = "done" => updated_count.kind \in {"returned", "raised"}

\* Reached: a cycle went through the three steps and returned the count of
\* the two rows it wrote.
C17_Witness ==
    /\ ppc = "done"
    /\ pcalls = <<"fetch_data:call", "fetch_data:return",
                  "process_results:call", "process_results:return",
                  "save_data:call", "save_data:return">>
    /\ ops.commit = 1
    /\ updated_count = [kind |-> "returned", count |-> 2]

\* C18 as claimed: a cycle of process_with_config whose write step failed
\* ends failed: the error is logged by the cycle and raised to its caller,
\* and no completed row count is reported.
C18_WriteFailureFailsCycle ==
    (ppc = "done" /\ wfail.at # "none") =>
        /\ updated_count.kind = "raised"
        /\ plog[Len(plog)] = "error"

(***************************************************************************)
(* Properties of fill_kpi (checked under SpecKpi)                          *)
(***************************************************************************)
\* C13 as claimed: when the rows a period has to write are none, nothing is
\* written and the destination table keeps the rows it held.
C13_ZeroRowsKeepTable ==
    (writer = "_bulk_insert_kpi" /\ RowsToInsert(writer, data_list) = <<>>) =>
        db[wtable] = wbefore[wtable]

\* The events of period k in the history: its fetch, then its end.
KpiWritten(k) == <<"written", KpiPeriods[k].table_name>>
KpiSkipped(k) == <<"skipped", KpiPeriods[k].table_name>>
WrittenCount == Cardinality({i \in 1..Len(kevents) : kevents[i][1] = "written"})

\* C16: fill_kpi fills the daily, the weekly and the monthly table in that
\* order, each period fetched only after the period before it has ended
\* with its write committed (or skipped), with nothing uncommitted while a
\* period fetches and one clear, insert and commit per period written; when
\* no period is skipped and no write fails that is exactly one replace-write
\* for each of the three tables.
C16_OneWritePerPeriod ==
    /\ \A i \in 1..Len(kevents) :
          LET k == (i + 1) \div 2
          IN  IF i % 2 = 1
              THEN kevents[i] = <<"fetch", KpiPeriods[k].table_name>>
              ELSE kevents[i] \in {KpiWritten(k), KpiSkipped(k)}
    /\ kpc = "gather" => txn = NoTxn /\ wpc \in {"idle", "done"}
    /\ (kpc \in {"gather", "done"} /\ kret # "raised") =>
          /\ ops = [clear |-> WrittenCount, insert |-> WrittenCount,
                    commit |-> WrittenCount, rollback |-> 0]
          /\ \A k \in 1..Len(KpiPeriods) :
                (\E i \in 1..Len(kevents) : kevents[i] = KpiWritten(k))
                    <=> db[KpiPeriods[k].table_name] # KpiOldRows
    /\ (kpc = "done" /\ kret = "returned"
           /\ \A i \in 1..Len(kevents) : kevents[i][1] # "skipped") =>
          /\ kevents = <<<<"fetch", "KpiDay">>, <<"written", "KpiDay">>,
                         <<"fetch", "KpiWeek">>, <<"written", "KpiWeek">>,
                         <<"fetch", "KpiMonth">>, <<"written", "KpiMonth">>>>
          /\ ops.clear = 3 /\ ops.insert = 3 /\ ops.commit = 3

\* Reached: fill_kpi has returned after three periods that each had rows
\* and were written, the three tables holding the new rows.
C16_Witness ==
    /\ kpc = "done"
    /\ kret = "returned"
    /\ WrittenCount = 3
    /\ \A t \in KpiTables : Len(db[t]) = 1 /\ db[t][1].fullname = "ivanov"

\* The rows the tasks of the current period returned, in task order, taken
\* from what asyncio.gather gave: a task that raised or answered None
\* contributes none.
KpiReturned ==
    VisitedRows(TaskTypes(ktasks),
                [i \in 1..Len(kresults) |->
                    IF kresults[i].st = "ok" THEN kresults[i].res
                    ELSE KpiNone.res],
                1)

\* The period fetched last had a task that raised and a task with rows.
SomeRaisedSomeRows ==
    /\ \E i \in 1..Len(kresults) : kresults[i].st = "exc"
    /\ \E i \in 1..Len(kresults) :
          kresults[i].st = "ok" /\ kresults[i].res.data # <<>>

\* The write of the period fetched last has committed.
KpiCommitted ==
    \/ kpc = "write" /\ wpc = "done" /\ wresult.kind = "returned_none"
    \/ kpc = "gather" /\ kevents[Len(kevents) - 1][1] = "written"
    \/ kpc = "done" /\ kret = "returned"
                    /\ kevents[Len(kevents)][1] = "written"

\* C14 as claimed: after a period in which some task raised, every metric a
\* task returned for a subject is populated in the rows written.
C14_EveryReturnedMetricWritten ==
    (kresults # <<>> /\ SomeRaisedSomeRows /\ KpiCommitted) =>
        LET v == KpiReturned
        IN  \A k \in 1..Len(v) :
                v[k].row.value # PyNone =>
                    \E j \in 1..Len(db[wtable]) :
                        /\ db[wtable][j].fullname = v[k].row.fullname
                        /\ db[wtable][j][v[k].report_type] # PyNone

\* The record written for subject S from the returned rows v.
KpiExpectedRecord(v, S) ==
    [f \in DOMAIN create_empty_kpi_record(S) |->
        IF f = "fullname" THEN S
        ELSE IF f = "contacts_count"
        THEN LET K == ContactRowsOf(v, S)
             IN  IF K = {} THEN PyNone
                 ELSE [k |-> "int", v |-> v[Max(K)].row.total_contacts.v]
        ELSE LET K == RowsOf(v, S, f)
             IN  IF K = {} THEN PyNone
                 ELSE ExpectedMetric(f, v[Max(K)].row.value)]

\* C14 (amended): a period in which some task raised and some task returned
\* rows is not failed by the fetch error: the rows returned are aggregated
\* and _bulk_insert_kpi is called for the period's table, and fill_kpi
\* raises only if that write fails. Once the write has committed the table
\* holds one row for each subject with a non-blank name among the rows
\* returned and no other row; in it the slot of a report type holds the
\* value of the last row of that type returned for the subject, and is None
\* when no task returned one, as for a task that raised.
C14_FetchErrorStillWrites ==
    (kresults # <<>> /\ SomeRaisedSomeRows) =>
        LET v == KpiReturned
            named == {v[k].row.fullname : k \in 1..Len(v)} \ {""}
        IN  /\ kpc = "write" =>
                  /\ writer = "_bulk_insert_kpi"
                  /\ wtable = KpiPeriods[kperiod].table_name
                  /\ wpc # "idle"
            /\ kpc = "gather" =>
                  kevents[Len(kevents) - 1] = KpiWritten(kperiod - 1)
            /\ kpc = "done" =>
                  \/ kret = "returned"
                        /\ kevents[Len(kevents)] = KpiWritten(Len(KpiPeriods))
                  \/ kret = "raised" /\ wfail.at # "none"
            /\ KpiCommitted =>
                  /\ Len(db[wtable]) = Cardinality(named)
                  /\ {db[wtable][j] : j \in 1..Len(db[wtable])}
                        = {KpiExpectedRecord(v, S) : S \in named}

\* Reached: in one period the csi task raised while the aht and flr tasks
\* returned a row for the same subject; the write has committed and the
\* subject's row has aht and flr set and csi None.
C14_Witness ==
    /\ kpc = "write"
    /\ wpc = "done"
    /\ wresult.kind = "returned_none"
    /\ kresults[3] = KpiExc
    /\ ktasks[3].report_type = "csi"
    /\ Len(db[wtable]) = 1
    /\ db[wtable][1].fullname = "ivanov"
    /\ db[wtable][1].aht = PyIntOf(1)
    /\ db[wtable][1].flr = [k |-> "float", v |-> 1]
    /\ db[wtable][1].csi = PyNone

(***************************************************************************)
(* Properties of the fetches of a KPI period (checked under SpecKpiUnits)  *)
(***************************************************************************)
\* C20 as claimed: at most semaphore_limit fetch operations of a KPI period
\* are executing at the same time.
C20_FetchesWithinLimit == KpiInFlight <= semaphore_limit

(***************************************************************************)
(* Properties of the premium backfills (checked under SpecPremium)         *)
(***************************************************************************)
\* The records of the rows returned in the first n periods fetched, period
\* after period, and how many they are.
RECURSIVE FetchedRecords(_, _)
FetchedRecords(f, n) ==
    IF n = 0 THEN <<>>
    ELSE FetchedRecords(f, n - 1) \o PremRecords(PremRows(f[n], Len(f[n])))

RECURSIVE FetchedCount(_, _)
FetchedCount(f, n) ==
    IF n = 0 THEN 0
    ELSE FetchedCount(f, n - 1) + Len(PremRows(f[n], Len(f[n])))

Writers == {c \in PremChildren : child[c].wrote}

\* C15: a backfill over several periods touches its table only after every
\* period has been fetched, and then at most once: the table is as it was
\* while periods are fetched and when the backfill ends without writing;
\* the writer is called once, with the records of all rows of all periods in
\* fetch order, as many as the per-period counts add up to; one clear and
\* one insert are issued per writer call, and after the commit the table
\* holds exactly those records.
C15_OneWriteOfAllPeriods ==
    /\ \A c \in PremChildren :
          LET ch == child[c]
              t == PremTable(c)
              all == FetchedRecords(ch.fetched, Len(ch.fetched))
          IN  /\ ch.pc \in {"idle", "gather", "insert"} =>
                    /\ db[t] = PremOldRows
                    /\ ~ch.wrote
                    /\ wtable # t
              /\ ch.pc \in {"insert", "write"} \/ ch.wrote =>
                    /\ Len(ch.fetched) = Len(periods)
                    /\ ch.acc = all
                    /\ Len(ch.acc) = FetchedCount(ch.fetched, Len(ch.fetched))
                    /\ ch.acc # <<>>
              /\ ch.pc = "write" =>
                    /\ wtable = t
                    /\ writer = PremWriter(c)
                    /\ data_list = all
              /\ (ch.pc = "done" /\ ch.wrote /\ ch.ret = "returned") =>
                    /\ db[t] = all
                    /\ Len(db[t]) = FetchedCount(ch.fetched, Len(ch.fetched))
              /\ (ch.pc = "done" /\ (~ch.wrote \/ ch.ret = "raised")) =>
                    db[t] = PremOldRows
    /\ ops.clear <= Cardinality(Writers)
    /\ ops.insert <= Cardinality(Writers)
    /\ ops.commit <= Cardinality(Writers)

\* Reached: a backfill of the specialists called on its own over two
\* periods, the first with two rows and the second with one, has returned
\* after one clear and one insert, and the table holds the three records.
C15_Witness ==
    LET ch == child["specialists"]
    IN  /\ mpc = "idle"
        /\ Len(periods) = 2
        /\ ch.pc = "done"
        /\ ch.ret = "returned"
        /\ Len(ch.fetched) = 2
        /\ Len(PremRows(ch.fetched[1], Len(ch.fetched[1]))) = 2
        /\ Len(PremRows(ch.fetched[2], Len(ch.fetched[2]))) = 1
        /\ Len(db["SpecPremium"]) = 3
        /\ ops = [clear |-> 1, insert |-> 1, commit |-> 1, rollback |-> 0]

\* C19 as claimed: when the specialists or the heads backfill has failed in
\* its aggregation or its write, fill_all_premium_last_6_months logs an
\* error and raises.
C19_BackfillFailureReraised ==
    (mpc = "done" /\ \E c \in PremChildren : child[c].ret = "raised") =>
        /\ mret = "raised"
        /\ mlog[Len(mlog)] = "error"

(***************************************************************************)
(* Progress of fetch_parallel (checked under SpecFetchLive)                *)
(***************************************************************************)
\* C21: when every task_executor call ends, every submitted task gets a
\* slot and runs, and fetch_parallel returns with every slot released,
\* whether the calls returned or raised and also with more tasks than
\* slots.
C21_EveryTaskRunsAndReturns ==
    /\ \A i \in 1..MaxTasks :
          (i \in DOMAIN cstate /\ cstate[i] = "waiting")
              ~> (i \in DOMAIN cstate /\ cstate[i] \in {"running", "done"})
    /\ \A i \in 1..MaxTasks :
          (i \in DOMAIN cstate /\ cstate[i] = "running")
              ~> (i \in DOMAIN executed /\ executed[i] # Pending)
    /\ (fpc = "gather") ~> (fpc = "returned")
    /\ [](fpc = "returned" =>
            /\ sem = semaphore_limit
            /\ \A i \in DOMAIN executed : executed[i] # Pending)

\* Reached: fetch_parallel has returned for more tasks than slots, one of
\* which raised, and every slot is free again.
C21_Witness ==
    /\ fpc = "returned"
    /\ Len(tasks) > semaphore_limit
    /\ \E i \in DOMAIN executed : executed[i] = Exc
    /\ \E i \in DOMAIN executed : executed[i] # Exc
    /\ sem = semaphore_limit

(***************************************************************************)
(* Hanging tasks in fetch_parallel (checked under SpecFetch)               *)
(***************************************************************************)
\* C29: fetch_parallel has no timeout. A call of task_executor that has
\* started holds its slot until it returns or raises, and while as many
\* calls as there are slots are in progress the only step that can be taken
\* is one of those calls ending: no waiting task starts and fetch_parallel
\* does not return. So when all of them hang, nothing ever happens again.
C29_HungTasksBlock ==
    /\ [](fpc = "gather" => sem = semaphore_limit - Cardinality(InProgress))
    /\ [][\A i \in InProgress :
              cstate'[i] # "running" => executed'[i] # Pending]_vars
    /\ [][(fpc = "gather" /\ Cardinality(InProgress) = semaphore_limit) =>
              /\ fpc' = "gather"
              /\ \E i \in InProgress : cstate'[i] = "done"
              /\ \A i \in DOMAIN cstate :
                    cstate[i] = "waiting" => cstate'[i] = "waiting"]_vars
    /\ [][fpc' = "returned" => InProgress = {}]_vars

\* Reached: every slot is held by a call in progress while another task
\* waits for a slot.
C29_Witness ==
    /\ fpc = "gather"
    /\ Cardinality(InProgress) = semaphore_limit
    /\ sem = 0
    /\ \E i \in DOMAIN cstate : cstate[i] = "waiting"

MonthText ==
    <<<<"0", "1">>, <<"0", "2">>, <<"0", "3">>, <<"0", "4">>, <<"0", "5">>,
      <<"0", "6">>, <<"0", "7">>, <<"0", "8">>, <<"0", "9">>, <<"1", "0">>,
      <<"1", "1">>, <<"1", "2">>>>

\* The text "01.mm.yyyy" of the month i months before the month of date d,
\* counting months from year 0.
MonthBefore(d, i) ==
    LET n == 12 * d.year + (d.month - 1) - i
    IN  <<"0", "1", ".">> \o MonthText[(n % 12) + 1] \o <<".">>
        \o FormatYear(n \div 12)

\* C23: for every current date generate_last_6_months_periods returns six
\* periods, newest first, the i-th (from 0) being the text "01.mm.yyyy" of
\* the month i months before the current one, in the year before when the
\* count goes back past January; for 15.03.2025 that is 01.03.2025,
\* 01.02.2025, 01.01.2025, 01.12.2024, 01.11.2024, 01.10.2024.
C23_LastSixMonths ==
    generated # <<>> =>
        /\ Len(generated) = 6
        /\ \A i \in 0..5 : generated[i + 1] = MonthBefore(current_date, i)
        /\ current_date = [year |-> 2025, month |-> 3, day |-> 15] =>
              generated =
                <<<<"0", "1", ".", "0", "3", ".", "2", "0", "2", "5">>,
                  <<"0", "1", ".", "0", "2", ".", "2", "0", "2", "5">>,
                  <<"0", "1", ".", "0", "1", ".", "2", "0", "2", "5">>,
                  <<"0", "1", ".", "1", "2", ".", "2", "0", "2", "4">>,
                  <<"0", "1", ".", "1", "1", ".", "2", "0", "2", "4">>,
                  <<"0", "1", ".", "1", "0", ".", "2", "0", "2", "4">>>>

\* Reached: the call on 15.03.2025 has returned, its fourth period being
\* December of the year before.
C23_Witness ==
    /\ current_date = [year |-> 2025, month |-> 3, day |-> 15]
    /\ Len(generated) = 6
    /\ generated[4] = <<"0", "1", ".", "1", "2", ".", "2", "0", "2", "4">>

(***************************************************************************)
(* Properties of the premium fills of one period (checked under            *)
(* SpecPremiumOne)                                                         *)
(***************************************************************************)
\* The divisions of fill c whose call gave a payload, by position, when the
\* gather has returned rs.
Answering(rs) == {k \in 1..Len(rs) : rs[k].st = "ok"}

\* C24: in a premium fill where the call of some division raised or gave no
\* payload while other divisions gave rows (with a period that can be read),
\* only the absent divisions are missing: the list holds one record for the
\* row of each answering division, in the order of the divisions, the writer
\* is called with that list and after its commit the table holds it; the
\* fill ends failed only if the write itself fails.
C24_AbsentDivisionOnly ==
    \A c \in PremChildren :
        LET ch == child[c]
            rs == ch.fetched[1]
            ok == Answering(rs)
        IN  (/\ ch.fetched # <<>>
             /\ ok # {}
             /\ ok # 1..Len(rs)
             /\ \A k \in ok : strptime(rs[k].items[1].period).ok) =>
                /\ ch.pc \in {"insert", "write", "done"}
                /\ Len(ch.acc) = Cardinality(ok)
                /\ \A k \in ok :
                      \E j \in 1..Len(ch.acc) :
                          /\ ch.acc[j].fullname = PremDivisions(c)[k]
                          /\ ch.acc[j].extraction_period
                                = strptime(periods[1]).date
                          /\ j = Cardinality({m \in ok : m <= k})
                /\ ch.pc = "write" =>
                      /\ data_list = ch.acc
                      /\ wtable = PremTable(c)
                /\ ch.pc = "done" =>
                      /\ ch.wrote
                      /\ ch.ret = "returned" => db[PremTable(c)] = ch.acc
                      /\ ch.ret = "raised" => wfail.at # "none"

\* Reached: fill_specialists_premium has returned after the call of the
\* first division raised and the second gave no payload, and the table holds
\* the one row of the third division.
C24_Witness ==
    LET ch == child["specialists"]
    IN  /\ ch.pc = "done"
        /\ ch.ret = "returned"
        /\ ch.fetched # <<>>
        /\ ch.fetched[1][1] = PremExc
        /\ ch.fetched[1][2] = PremNone
        /\ ch.fetched[1][3].st = "ok"
        /\ Len(db["SpecPremium"]) = 1
        /\ db["SpecPremium"][1].fullname = "NCK"

\* C25 as claimed: every row of a successful fetch gives one storage row
\* whose fields equal the fields of the same name of the source row, and a
\* fill of one period p writes the collection that the backfill over the
\* list [p] writes for the same answers.
C25_OneToOneAndSameAsBackfill ==
    \A c \in PremChildren :
        child[c].pc = "write" =>
            LET rows == PremRows(child[c].fetched[1], Len(child[c].fetched[1]))
            IN  /\ Len(data_list) = Len(rows)
                /\ \A k \in 1..Len(rows) :
                      /\ data_list[k].target_normative_second
                            = rows[k].target_normative_second
                      /\ data_list[k].target_normative_rate_second
                            = rows[k].target_normative_rate_second
                /\ data_list = Accumulate(<<>>, PremRecords(rows))

(***************************************************************************)
(* Properties of the rows of a KPI write (checked under SpecKpi)           *)
(***************************************************************************)
\* _bulk_insert_kpi has committed the records of the period fetched last
\* and has not yet returned to _generic_fill_period.
KpiWriteCommitted ==
    /\ kpc = "write"
    /\ writer = "_bulk_insert_kpi"
    /\ wpc = "done"
    /\ wresult.kind = "returned_none"

\* C26 as claimed: the KPI write inserts as many rows as the aggregated
\* mapping has records, and each record's name field equals its key.
C26_OneRowPerRecord ==
    KpiWriteCommitted =>
        /\ wresult.count = Cardinality(DOMAIN kpi_dict)
        /\ Len(db[wtable]) = Cardinality(DOMAIN kpi_dict)
        /\ \A n \in DOMAIN kpi_dict : kpi_dict[n].fullname = n

\* C26 (amended): every aggregated record with a non-blank name yields
\* exactly one inserted row and a record kept under a blank key yields
\* none: the number of rows the KPI write inserts equals the number of
\* records with a non-blank name, each of them is one row of the table and
\* the table has no other row; each record's name field equals its key.
C26_OneRowPerNamedRecord ==
    KpiWriteCommitted =>
        LET named == {n \in DOMAIN kpi_dict : n # ""}
        IN  /\ wresult.count = Cardinality(named)
            /\ Len(db[wtable]) = Cardinality(named)
            /\ \A n \in named :
                  Cardinality({j \in 1..Len(db[wtable]) :
                                  db[wtable][j] = kpi_dict[n]}) = 1
            /\ \A j \in 1..Len(db[wtable]) :
                  /\ db[wtable][j].fullname \in named
                  /\ db[wtable][j] = kpi_dict[db[wtable][j].fullname]
            /\ \A n \in DOMAIN kpi_dict : kpi_dict[n].fullname = n

\* Reached: the mapping has a record under a blank key and one for ivanov,
\* and the committed write inserted the one row of ivanov.
C26_Witness ==
    /\ KpiWriteCommitted
    /\ DOMAIN kpi_dict = {"", "ivanov"}
    /\ wresult.count = 1
    /\ db[wtable] = <<kpi_dict["ivanov"]>>

(***************************************************************************)
(* Properties of two overlapping writes (checked under SpecOverlap)        *)
(***************************************************************************)
\* The complete snapshot of the call in session s: the rows its writer
\* inserts from what it was handed.
Snapshot(s) == RowsToInsert(ovwriter, sess[s].data)

\* The complete states the table can be in: its prior rows, and the
\* snapshot of each call that has committed.
CompleteStates ==
    {wbefore[ovtable]}
        \cup {Snapshot(s) : s \in {o \in Sessions : sess[o].ret = "returned"}}

\* The table is neither in its prior state nor any call's snapshot.
Mixed == ovtable # "none" /\ db[ovtable] \notin CompleteStates

CycleFailed ==
    \/ kret = "raised"
    \/ child["specialists"].ret = "raised"
    \/ \E k \in 1..Len(job_runs) : job_runs[k] = "raised"

\* C28 as claimed: a failed cycle, the KPI and premium cycles of start-up
\* included, does not end the process: main() has not raised, and once the
\* failed call is over the scheduler is running with the interval job that
\* runs the cycle again at the next tick.
C28_FailedCycleKeepsProcess ==
    CycleFailed =>
        /\ main_pc # "raised"
        /\ main_pc = "sleeping" =>
              scheduler_running /\ "fill_specialists_premium" \in jobs

(***************************************************************************)
(* The frame of one pass of `for row in res.data` (checked under SpecAgg)  *)
(***************************************************************************)
\* This step is a pass of the loop body over a row.
RowStep ==
    /\ apc = "loop"
    /\ agg_results' # agg_results
    /\ ~NoData(StepResult)

\* The record of subject S before the step: the one the dictionary holds,
\* or the default the dictionary makes on first access.
RecordBefore(S) ==
    IF S \in DOMAIN kpi_dict THEN kpi_dict[S] ELSE create_empty_kpi_record("")

\* C30: processing one row of report type T for subject S changes only S's
\* T slot, S's contacts_count and, if it is still unset, S's name: the
\* other metric slots of S keep their values, the records of every other
\* subject are unchanged, and no record other than S's is created.
C30_RowTouchesOwnSlotsOnly ==
    [][RowStep =>
          LET S == StepRow.fullname
              T == StepType
              before == RecordBefore(S)
          IN  /\ DOMAIN kpi_dict' = DOMAIN kpi_dict \cup {S}
              /\ \A n \in DOMAIN kpi_dict \ {S} : kpi_dict'[n] = kpi_dict[n]
              /\ \A f \in DOMAIN before \ {T, "contacts_count", "fullname"} :
                    kpi_dict'[S][f] = before[f]
              /\ before.fullname # "" =>
                    kpi_dict'[S].fullname = before.fullname]_vars

\* Reached: one result of type aht had rows for petrov, for ivanov and for
\* ivanov again, the last without a value: ivanov's aht slot is None again,
\* ivanov's other slots are still unset, and petrov's record is as its own
\* row left it.
C30_Witness ==
    /\ Len(agg_results) = 1
    /\ agg_tasks[1] = "aht"
    /\ Len(agg_results[1].data) = 3
    /\ agg_results[1].data[1].fullname = "petrov"
    /\ agg_results[1].data[2].fullname = "ivanov"
    /\ agg_results[1].data[3].fullname = "ivanov"
    /\ agg_results[1].data[2].value # PyNone
    /\ agg_results[1].data[3].value = PyNone
    /\ kpi_dict["ivanov"].aht = PyNone
    /\ kpi_dict["ivanov"].flr = PyNone
    /\ kpi_dict["petrov"].aht = PyIntOf(1)
    /\ kpi_dict["petrov"].contacts_count = PyIntOf(1)
    /\ kpi_dict["petrov"].fullname = "petrov"

(***************************************************************************)
(* The tables a cycle changes (checked under SpecCycles)                   *)
(***************************************************************************)
\* The destination table of the cycle that is in its write step, "none"
\* when no cycle is: KpiDay, KpiWeek and KpiMonth for the daily, weekly and
\* monthly KPI periods, SpecPremium for the specialists and HeadPremium for
\* the heads.
WritingCycleTable ==
    IF kpc = "write"
    THEN <<"KpiDay", "KpiWeek", "KpiMonth">>[kperiod]
    ELSE IF child["specialists"].pc = "write" THEN "SpecPremium"
    ELSE IF child["heads"].pc = "write" THEN "HeadPremium"
    ELSE "none"

\* C31: a step that changes a table is a step of the write of a cycle and
\* the table is that cycle's own: the daily, weekly and monthly KPI periods
\* change only KpiDay, KpiWeek and KpiMonth, the specialists premium cycles
\* only SpecPremium and the heads premium cycles only HeadPremium; a step of
\* fetching or aggregating changes no table.
C31_OnlyOwnTableInWriteStep ==
    [][\A t \in Tables :
          db'[t] # db[t] =>
              /\ wpc \in {"truncate", "add_all", "commit"}
              /\ t = wtable
              /\ t = WritingCycleTable]_vars

\* Reached: the weekly KPI period has committed its write: KpiWeek holds
\* new rows, KpiDay holds what the daily period wrote and KpiMonth and the
\* premium tables hold their old rows.
C31_Witness ==
    /\ kpc = "write"
    /\ kperiod = 2
    /\ wpc = "done"
    /\ wresult.kind = "returned_none"
    /\ db["KpiWeek"] # KpiOldRows
    /\ db["KpiDay"] # KpiOldRows
    /\ db["KpiMonth"] = KpiOldRows
    /\ db["SpecPremium"] = PremOldRows
    /\ db["HeadPremium"] = PremOldRows

(***************************************************************************)
(* A conversion error in a backfill (checked under SpecPremium)            *)
(***************************************************************************)
\* Among the rows backfill c has fetched there is one whose period
\* strptime rejects.
FetchedBadRow(c) ==
    \E k \in 1..Len(child[c].fetched) :
        LET rows == PremRows(child[c].fetched[k], Len(child[c].fetched[k]))
        IN  \E j \in 1..Len(rows) : ~strptime(rows[j].period).ok

\* C32: when the conversion of a row of any period raises, the backfill
\* raises at once: it fetches no further period, it has not called its
\* writer, so no clear and no insert was made, and its table holds the rows
\* it held before, whatever was accumulated from the earlier periods.
C32_ConversionErrorWritesNothing ==
    \A c \in PremChildren :
        FetchedBadRow(c) =>
            /\ child[c].pc = "done"
            /\ child[c].ret = "raised"
            /\ child[c].i = Len(child[c].fetched)
            /\ ~child[c].wrote
            /\ writer # PremWriter(c)
            /\ db[PremTable(c)] = PremOldRows

\* Reached: a backfill over two periods accumulated a record from the
\* first period, met an unparsable period in the second and raised; its
\* table is as before.
C32_Witness ==
    \E c \in PremChildren :
        /\ Len(periods) = 2
        /\ Len(child[c].fetched) = 2
        /\ FetchedBadRow(c)
        /\ child[c].acc # <<>>
        /\ child[c].ret = "raised"
        /\ ~child[c].wrote
        /\ db[PremTable(c)] = PremOldRows

(***************************************************************************)
(* A failing period of fill_kpi (checked under SpecKpi)                    *)
(***************************************************************************)
\* The tables of the periods after period p.
LaterKpiTables(p) ==
    {KpiPeriods[q].table_name : q \in (p + 1)..Len(KpiPeriods)}

\* C33: when the write of a period raises, fill_kpi raises: the periods
\* after it are not run in that call, so no fetch is made for them and
\* their tables hold what they held; a failing daily period leaves KpiWeek
\* and KpiMonth, a failing weekly period leaves KpiMonth.
C33_FailedPeriodStopsFillKpi ==
    /\ (kpc # "idle" /\ writer = "_bulk_insert_kpi" /\ wresult.kind = "raised") =>
          /\ kpc \in {"write", "done"}
          /\ kpc = "done" => kret = "raised"
          /\ wtable = KpiPeriods[kperiod].table_name
          /\ \A t \in LaterKpiTables(kperiod) :
                /\ db[t] = KpiOldRows
                /\ \A k \in 1..Len(kevents) : kevents[k][2] # t
    /\ kret = "raised" => wresult.kind = "raised"

\* Reached: the daily period wrote KpiDay, the write of the weekly period
\* raised and fill_kpi raised: KpiWeek and KpiMonth hold their old rows and
\* nothing was fetched for the monthly period.
C33_Witness ==
    /\ kpc = "done"
    /\ kret = "raised"
    /\ kperiod = 2
    /\ db["KpiDay"] # KpiOldRows
    /\ db["KpiWeek"] = KpiOldRows
    /\ db["KpiMonth"] = KpiOldRows
    /\ \A k \in 1..Len(kevents) : kevents[k][2] # "KpiMonth"

(***************************************************************************)
(* The two backfills of fill_all_premium_last_6_months (checked under      *)
(* SpecPremiumAll)                                                         *)
(***************************************************************************)
\* The other backfill.
OtherChild(c) == CHOOSE k \in PremChildren : k # c

\* C34: the two backfills are gathered together and a failure of one does
\* not stop the other: fill_all_premium_last_6_months ends only when both
\* have ended, and a backfill whose sibling raised still ends for reasons of
\* its own. Unless one of its own rows fails to convert it fetches every
\* period, and if it has records it calls its writer; when it returns its
\* table holds exactly its records, and it raises only on an error of its
\* own conversion or write.
C34_BackfillsIndependent ==
    /\ mpc = "done" => \A k \in PremChildren : child[k].pc = "done"
    /\ \A a \in PremChildren :
          LET b == OtherChild(a)
          IN  (mpc # "idle" /\ child[a].ret = "raised" /\ child[b].pc = "done") =>
                  /\ ~FetchedBadRow(b) =>
                        /\ Len(child[b].fetched) = Len(periods)
                        /\ child[b].acc # <<>> => child[b].wrote
                  /\ (child[b].ret = "returned" /\ child[b].acc # <<>>) =>
                        db[PremTable(b)] = child[b].acc
                  /\ child[b].ret = "raised" =>
                        FetchedBadRow(b) \/ child[b].wrote

\* Reached: the specialists backfill raised, the heads backfill fetched all
\* six periods, wrote its records and returned, and the call has ended.
C34_Witness ==
    /\ mpc = "done"
    /\ child["specialists"].ret = "raised"
    /\ child["heads"].ret = "returned"
    /\ Len(child["heads"].fetched) = MonthsBack
    /\ child["heads"].wrote
    /\ child["heads"].acc # <<>>
    /\ db["HeadPremium"] = child["heads"].acc

(***************************************************************************)
(* bulk_insert_with_cleanup without a delete function (checked under       *)
(* SpecWrite)                                                              *)
(***************************************************************************)
\* The running call is bulk_insert_with_cleanup with delete_func None.
InsertOnlyCall ==
    /\ wpc # "idle"
    /\ writer = "bulk_insert_with_cleanup"
    /\ ~delete_func

\* C36: bulk_insert_with_cleanup called with no delete function makes no
\* clear at any point; when it succeeds the table holds the rows it held
\* before followed by the new rows, every other table is as before, and the
\* count returned is the number of new rows.
C36_NoDeleteFuncAppends ==
    InsertOnlyCall =>
        /\ ops.clear = 0
        /\ ~txn.cleared
        /\ (wpc = "done" /\ wfail.at = "none" /\ data_list # <<>>) =>
              /\ db[wtable] = wbefore[wtable] \o data_list
              /\ \A t \in Tables \ {wtable} : db[t] = wbefore[t]
              /\ wresult = [kind |-> "returned", count |-> Len(data_list)]

\* Reached: a call without a delete function on a table that held a row
\* has returned 2 after adding two rows, and the table holds three.
C36_Witness ==
    /\ InsertOnlyCall
    /\ wpc = "done"
    /\ wfail.at = "none"
    /\ Len(wbefore[wtable]) = 1
    /\ Len(data_list) = 2
    /\ wresult.count = 2
    /\ db[wtable] = wbefore[wtable] \o data_list

\* C35: bulk_update_with_transaction returns 0 without calling anything for
\* an empty list; otherwise it calls update_func once per update in order,
\* commits once after the last call and returns the number of updates; if a
\* call or the commit raises, no later update is attempted, the session is
\* rolled back, nothing of the call becomes visible and 0 is returned.
C35_UpdateAllOrNothing ==
    /\ Len(ucalls) <= Len(updates)
    /\ ucalls = SubSeq(updates, 1, Len(ucalls))
    /\ uops.commit <= 1
    /\ uops.commit = 1 => ucalls = updates /\ ufail.at # "update"
    /\ upc = "done" =>
        /\ uresult.kind = "returned"
        /\ updates = <<>> =>
            uresult.count = 0 /\ ucalls = <<>> /\ uops = NoUpdOps
                              /\ uvisible = <<>>
        /\ (updates # <<>> /\ ufail.at = "none") =>
            /\ uresult.count = Len(updates)
            /\ uops = [commit |-> 1, rollback |-> 0]
            /\ uvisible = updates
        /\ ufail.at # "none" =>
            /\ uresult.count = 0
            /\ uops.rollback = 1
            /\ uvisible = <<>>
            /\ upending = <<>>
        /\ ufail.at = "update" =>
            Len(ucalls) = ufail.n /\ uops.commit = 0

\* A call fails at its second update: the first was applied, then undone.
C35_Witness ==
    /\ upc = "done"
    /\ ufail = [at |-> "update", n |-> 2]
    /\ Len(updates) = 2
    /\ uresult = [kind |-> "returned", count |-> 0]
    /\ uops.rollback = 1

====
